---- MODULE Spec2Model ----
(***************************************************************************)
(* Model of the astar-erc-tokens squid: the batch handler of processor.ts, *)
(* the entity managers (in-batch caches over the durable store), the bulk  *)
(* prefetch pass and the event resolvers for ERC20 / ERC721 / ERC1155.     *)
(*                                                                         *)
(* Strings are sequences of tokens, so that template strings such as       *)
(* `${accountId}-${transferId}` are real concatenations.  An address is    *)
(* the three-token sequence <<first 6 characters, middle 30 characters,    *)
(* last 6 characters>>, which is what substring(0, 6) and                  *)
(* substring(length - 6, length) cut it into.  The strings a contract      *)
(* returns (name, symbol, uri) are sequences of characters, so that the    *)
(* null-byte replace and the regular expression test act on them.          *)
(***************************************************************************)
EXTENDS Integers, Sequences, FiniteSets, TLC

\* ------------------------------------------------------------------------
\* Bounds of the model
\* ------------------------------------------------------------------------
MaxBatches == 2
MaxBatchLen == 2
MaxLogs == 3
MaxFaults == 1

\* ------------------------------------------------------------------------
\* Program constants
\* ------------------------------------------------------------------------
EMPTY_ADDRESS == <<"0x0000", "000000000000000000000000000000", "000000">>
PrefetchChunkSize == 1000

\* null for string-valued fields (a token that is not a character), and for
\* an optional Account reference
NULL == <<"<null>">>
NoAccount == <<>>

\* the ten entity kinds, in the order initAllEntityManagers binds them
Kinds == <<"account", "collection", "fToken", "nfToken", "uriUpdateAction",
           "ftTransfer", "nftTransfer", "accountFtTransfer",
           "accountNftTransfer", "accountFTokenBalance">>
KindSet == {Kinds[i] : i \in 1..Len(Kinds)}

\* ------------------------------------------------------------------------
\* Inputs: addresses, contracts, amounts, contract-call results
\* ------------------------------------------------------------------------
AddrA == <<"0xaaaa", "a", "aaaaaa">>
AddrB == <<"0xbbbb", "b", "bbbbbb">>
Addresses == {EMPTY_ADDRESS, AddrA, AddrB}
FtContract == <<"0xf0f0", "f", "f0f0f0">>
NftContract == <<"0xc1c1", "c", "c1c1c1">>
TokenIds == {1, 2}
FtAmounts == {3}
BootBalances == {0, 10}
Uris == {<<"u", "1">>, <<>>}

\* BigNumber.toString() / bigint toString() on the numbers the model uses
DecStr(n) == <<<<"0">>, <<"1">>, <<"2">>, <<"3">>, <<"4">>, <<"5">>>>[n + 1]

\* the outcome of one contract read awaited under addTimeout: the call
\* resolves with a value, or it rejects (the contract reverts, or the timer
\* of addTimeout fires on a call that does not answer)
Answer(value) == [ok |-> TRUE, value |-> value]
Rejects == [ok |-> FALSE, value |-> NULL]

\* what a contract answers to the reads of getTokenDetails: every read
\* resolves, or every read rejects
DetailsNamed ==
    [name |-> Answer(<<"N", "a", "m", "e">>), symbol |-> Answer(<<"S", "Y", "M">>),
     decimals |-> Answer(<<"18">>), uri |-> Answer(<<"u", "0">>)]
DetailsEmpty ==
    [name |-> Rejects, symbol |-> Rejects, decimals |-> Rejects, uri |-> Rejects]
DetailsSet == {DetailsNamed, DetailsEmpty}

\* ------------------------------------------------------------------------
\* Identifier scheme (utils/common)
\* ------------------------------------------------------------------------
getTokenEntityId(address, tokenId) ==
    <<address[1], "-", address[Len(address)]>>
        \o (IF tokenId # <<>> THEN <<"-">> \o tokenId ELSE <<>>)

getNftTransferEntityId(eventId, tokenId) == eventId \o <<"-">> \o tokenId

\* getAccountTransferEntityId that shortens the account as token ids are
getAccountTransferEntityIdShort(accountId, transferId) ==
    getTokenEntityId(accountId, transferId)

getAccountTransferEntityId(accountId, transferId) ==
    accountId \o <<"-">> \o transferId

getAccountFTokenBalanceEntityId(accountId, tokenId) ==
    accountId \o <<"-">> \o tokenId

\* ------------------------------------------------------------------------
\* Transfer classification and supply arithmetic (utils/common)
\* ------------------------------------------------------------------------
isMint(from, to) == from = EMPTY_ADDRESS /\ to # EMPTY_ADDRESS

isBurn(from, to) == to = EMPTY_ADDRESS /\ from # EMPTY_ADDRESS

\* getTransferType with a mint test that forgets the receiver
getTransferTypeLoose(from, to) ==
    IF from = EMPTY_ADDRESS THEN "MINT"
    ELSE IF isBurn(from, to) THEN "BURN"
    ELSE "TRANSFER"

getTransferType(from, to) ==
    IF isMint(from, to) THEN "MINT"
    ELSE IF isBurn(from, to) THEN "BURN"
    ELSE "TRANSFER"

\* getTokenTotalSupply that returns the new value as it is
getTokenTotalSupplyUnclamped(currentAmount, newAmount, txType) ==
    CASE txType = "MINT" -> currentAmount + newAmount
      [] txType = "BURN" -> currentAmount - newAmount
      [] txType = "TRANSFER" ->
            IF currentAmount = 0 THEN newAmount ELSE currentAmount
      [] OTHER -> currentAmount

getTokenTotalSupply(currentAmount, newAmount, txType) ==
    LET newValue ==
            CASE txType = "MINT" -> currentAmount + newAmount
              [] txType = "BURN" -> currentAmount - newAmount
              [] txType = "TRANSFER" ->
                    IF currentAmount = 0 THEN newAmount ELSE currentAmount
              [] OTHER -> currentAmount
    IN  IF newValue >= 0 THEN newValue ELSE 0

\* getTokenBurnedStatus that takes an amount of zero for not burned
getTokenBurnedStatusStrict(currentAmount) == currentAmount < 0

getTokenBurnedStatus(currentAmount) == currentAmount <= 0

\* splitIntoBatches whose loop also runs when exactly maxBatchSize items are
\* left, so that the slice after the loop can be empty
RECURSIVE splitFromInclusive(_, _, _)
splitFromInclusive(list, offset, maxBatchSize) ==
    IF Len(list) - offset >= maxBatchSize
    THEN <<SubSeq(list, offset + 1, offset + maxBatchSize)>>
            \o splitFromInclusive(list, offset + maxBatchSize, maxBatchSize)
    ELSE <<SubSeq(list, offset + 1, Len(list))>>

splitIntoBatchesInclusive(list, maxBatchSize) ==
    IF Len(list) <= maxBatchSize THEN <<list>>
    ELSE splitFromInclusive(list, 0, maxBatchSize)

RECURSIVE splitFrom(_, _, _)
splitFrom(list, offset, maxBatchSize) ==
    IF Len(list) - offset > maxBatchSize
    THEN <<SubSeq(list, offset + 1, offset + maxBatchSize)>>
            \o splitFrom(list, offset + maxBatchSize, maxBatchSize)
    ELSE <<SubSeq(list, offset + 1, Len(list))>>

splitIntoBatches(list, maxBatchSize) ==
    IF Len(list) <= maxBatchSize THEN <<list>>
    ELSE splitFrom(list, 0, maxBatchSize)

\* ------------------------------------------------------------------------
\* State
\* ------------------------------------------------------------------------
VARIABLES
    feed,                \* the token standard whose logs the source delivers
    pc,                  \* phase of the batch handler
    batchNo,             \* number of batches handed to the handler so far
    logsSeen,            \* number of logs delivered over all batches
    faults,              \* number of store failures injected so far
    context,             \* the managers' `context` is set (init was called)
    blocks,              \* the EVM.Log items of ctx.blocks, in order
    idx,                 \* index of the next item of the processing loop
    entitiesMap,         \* per kind: the manager's entitiesMap
    prefetchItemIdsList, \* per kind: the manager's prefetchItemIdsList
    store,               \* per kind: the rows of the durable store
    calls,               \* store.find / store.get calls of this batch
    last,                \* what the processing loop did with its last item,
                         \* the tokens it read the details of, and the
                         \* live balance reads of the batch so far
    saves,               \* store.save calls of this batch
    api                  \* the last call a client made on one manager or
                         \* utility, the operation of the call before it,
                         \* and what the contract answered during the call

vars == <<feed, pc, batchNo, logsSeen, faults, context, blocks, idx, entitiesMap,
          prefetchItemIdsList, store, calls, last, saves, api>>

Feeds == {"erc20", "erc721", "single", "batch"}

EmptyMap == [k \in KindSet |-> <<>>]

NoLog == [topic |-> "none", shape |-> "none", address |-> <<>>, from |-> <<>>,
          to |-> <<>>, operator |-> <<>>, ids |-> <<>>, values |-> <<>>,
          uri |-> NULL, id |-> <<>>]

NoLast == [log |-> NoLog, ran |-> {}, threw |-> {}, cause |-> "",
           enriched |-> <<>>, booted |-> <<>>]

NoApi == [n |-> 0, op |-> "none", prev |-> "none", id |-> <<>>, threw |-> FALSE,
          ret |-> {}, queried |-> FALSE, flushed |-> {}, det |-> DetailsEmpty,
          contractStandard |-> "", withTokenId |-> FALSE, enriched |-> <<>>,
          held |-> {}, pending |-> <<>>, timedOut |-> <<>>, keys |-> <<>>,
          committed |-> {}]

Init ==
    /\ feed \in Feeds
    /\ pc = "INIT"
    /\ batchNo = 0
    /\ logsSeen = 0
    /\ faults = 0
    /\ context = FALSE
    /\ blocks = <<>>
    /\ idx = 1
    /\ entitiesMap = EmptyMap
    /\ prefetchItemIdsList = [k \in KindSet |-> <<>>]
    /\ store = EmptyMap
    /\ calls = <<>>
    /\ last = NoLast
    /\ saves = <<>>
    /\ api = NoApi

\* ------------------------------------------------------------------------
\* The durable store as the managers use it, and the resolver "machine":
\* the value threaded through one resolver call.  map is the entitiesMap of
\* every manager, thrown/cause an exception in flight, gets the number of
\* store.get calls made so far by this resolver, failAt the store.get call
\* that rejects (0: none), det and bals what the contract calls answer,
\* enriched the ids of the tokens getTokenDetails was called for, asked the
\* contract reads awaited so far (the entity and the field a read is for,
\* and for a balance its rank among the balance reads),
\* ret the value returned by the last call (a set: {} is null).
\* ------------------------------------------------------------------------
Machine(failAt, det, bals) ==
    [map |-> entitiesMap, thrown |-> FALSE, cause |-> "", gets |-> 0,
     failAt |-> failAt, det |-> det, bals |-> bals, reads |-> 0,
     enriched |-> <<>>, asked |-> <<>>, calls |-> calls, ret |-> {}]

Throw(m, cause) == [m EXCEPT !.thrown = TRUE, !.cause = cause, !.ret = {}]

Ret(m, value) == [m EXCEPT !.ret = {value}]

TheOne(S) == CHOOSE x \in S : TRUE

\* await: the value of a call, evaluated once, handed to what follows it
Bind(v, K(_)) == TheOne({K(x) : x \in {v}})

\* a JavaScript falsy string: null or the empty string
Falsy(str) == str = NULL \/ str = <<>>

\* EntitiesManager.add
Add(m, kind, entity) ==
    [m EXCEPT !.map[kind] = (entity.id :> entity) @@ @]

\* EntitiesManager.get that keeps what store.get returned in the cache
GetCaching(m, kind, id) ==
    IF m.thrown THEN m
    ELSE IF ~context THEN Throw(m, "context")
    ELSE IF id \in DOMAIN m.map[kind] THEN [m EXCEPT !.ret = {m.map[kind][id]}]
    ELSE IF id \in DOMAIN store[kind]
    THEN [m EXCEPT !.gets = @ + 1,
                   !.calls = Append(@, [op |-> "get", kind |-> kind,
                                        ids |-> {id}, where |-> <<id>>]),
                   !.ret = {store[kind][id]},
                   !.map[kind] = (id :> store[kind][id]) @@ @]
    ELSE [m EXCEPT !.gets = @ + 1,
                   !.calls = Append(@, [op |-> "get", kind |-> kind,
                                        ids |-> {id}, where |-> <<id>>]),
                   !.ret = {}]

\* EntitiesManager.get: the cached instance, else store.get
Get(m, kind, id) ==
    IF m.thrown THEN m
    ELSE IF ~context THEN Throw(m, "context")
    ELSE IF id \in DOMAIN m.map[kind] THEN [m EXCEPT !.ret = {m.map[kind][id]}]
    ELSE LET n == m.gets + 1
             c == Append(m.calls, [op |-> "get", kind |-> kind, ids |-> {id},
                                   where |-> <<id>>])
         IN  IF n = m.failAt
             THEN Throw([m EXCEPT !.gets = n, !.calls = c], "store")
             ELSE [m EXCEPT !.gets = n, !.calls = c,
                            !.ret = IF id \in DOMAIN store[kind]
                                    THEN {store[kind][id]} ELSE {}]

\* accounts: createAccount
createAccount(id) == [id |-> id]

\* AccountsManager.getOrCreate
AccountsGetOrCreate(m, id) ==
    Bind(Get(m, "account", id), LAMBDA g :
    IF g.thrown THEN g
    ELSE Bind(IF g.ret = {} THEN createAccount(id) ELSE TheOne(g.ret),
              LAMBDA account : Ret(Add(g, "account", account), account)))

\* collections: createCollection
createCollection(id, contractStandard) ==
    [id |-> id, collectionType |-> contractStandard]

\* CollectionManager.getOrCreate
CollectionGetOrCreate(m, id, contractStandard) ==
    Bind(Get(m, "collection", id), LAMBDA g :
    IF g.thrown THEN g
    ELSE Bind(IF g.ret = {} THEN createCollection(id, contractStandard)
              ELSE TheOne(g.ret),
              LAMBDA collection :
                  Ret(Add(g, "collection", collection), collection)))

\* the characters of the regular expression of getDecoratedCallResult
NUL == "\\0"
Digits == {"0", "1", "2", "3", "4", "5", "6", "7", "8", "9"}
Letters == {"a", "b", "c", "d", "e", "f", "g", "h", "i", "j", "k", "l", "m",
            "n", "o", "p", "q", "r", "s", "t", "u", "v", "w", "x", "y", "z",
            "A", "B", "C", "D", "E", "F", "G", "H", "I", "J", "K", "L", "M",
            "N", "O", "P", "Q", "R", "S", "T", "U", "V", "W", "X", "Y", "Z"}
WordChars == Letters \cup Digits \cup {"_"}

\* regex.test(rawValue) for /^\d{10}\.[\d|\w]{4}$/
regexTest(rawValue) ==
    /\ Len(rawValue) = 15
    /\ \A i \in 1..10 : rawValue[i] \in Digits
    /\ rawValue[11] = "."
    /\ \A i \in 12..15 : rawValue[i] \in Digits \cup {"|"} \cup WordChars

\* tokens/utils clearNullBytes: rawStr.replace(/\0/g, '') of a truthy string
clearNullBytes(rawStr) ==
    IF Falsy(rawStr) THEN rawStr
    ELSE SelectSeq(rawStr, LAMBDA c : c # NUL)

\* tokens/utils getDecoratedCallResult
getDecoratedCallResult(rawValue) ==
    IF Falsy(rawValue) THEN NULL
    ELSE IF regexTest(rawValue) THEN NULL
    ELSE clearNullBytes(rawValue)

\* one read of getTokenDetails in its own try / catch: the variable keeps
\* its initial null when the awaited call rejects
tryRead(outcome) == IF outcome.ok THEN outcome.value ELSE NULL

\* getTokenDetails in which the first read that rejects ends the reads
getTokenDetailsOneTry(det, contractStandard, withTokenId) ==
    LET okName == det.name.ok
        okSymbol == okName /\ det.symbol.ok
        okDecimals == okSymbol /\ (contractStandard # "ERC20" \/ det.decimals.ok)
    IN  [name |-> getDecoratedCallResult(IF okName THEN det.name.value ELSE NULL),
         symbol |-> getDecoratedCallResult(IF okSymbol THEN det.symbol.value
                                           ELSE NULL),
         decimals |-> IF contractStandard = "ERC20" /\ okDecimals
                      THEN det.decimals.value ELSE NULL,
         uri |-> IF withTokenId /\ contractStandard # "ERC20" /\ okDecimals
                 THEN clearNullBytes(tryRead(det.uri)) ELSE NULL]

\* tokens/utils getTokenDetails: every read is isolated, a failed read is
\* null; decimals exists on the ERC20 contract only, uri / tokenURI on the
\* others and is read when a token id is passed
getTokenDetails(det, contractStandard, withTokenId) ==
    [name |-> getDecoratedCallResult(tryRead(det.name)),
     symbol |-> getDecoratedCallResult(tryRead(det.symbol)),
     decimals |-> IF contractStandard = "ERC20" THEN tryRead(det.decimals)
                  ELSE NULL,
     uri |-> IF withTokenId /\ contractStandard # "ERC20"
             THEN clearNullBytes(tryRead(det.uri)) ELSE NULL]

\* the reads getTokenDetails awaits, in order, for the entity `id`
readsOf(kind, id, contractStandard, withTokenId) ==
    Bind(<<"name", "symbol">>
             \o (IF contractStandard = "ERC20" THEN <<"decimals">>
                 ELSE IF withTokenId THEN <<"uri">> ELSE <<>>),
         LAMBDA fields :
             [i \in 1..Len(fields) |->
                 [kind |-> kind, id |-> id, field |-> fields[i], no |-> 0]])

\* tokens createFToken
createFToken(m, contractAddress, contractStandard) ==
    Bind(getTokenDetails(m.det, contractStandard, FALSE), LAMBDA d :
    Ret([m EXCEPT !.enriched = Append(@, contractAddress),
                  !.asked = @ \o readsOf("fToken", contractAddress,
                                         contractStandard, FALSE)],
        [id |-> contractAddress, name |-> d.name, symbol |-> d.symbol,
         decimals |-> d.decimals]))

\* FTokenManager.getOrCreate that reads the details on every call
FTokenGetOrCreateAlways(m, contractAddress, contractStandard) ==
    Bind(Get(m, "fToken", contractAddress), LAMBDA g :
    IF g.thrown THEN g
    ELSE Bind(createFToken(g, contractAddress, contractStandard),
              LAMBDA c : Ret(Add(c, "fToken", TheOne(c.ret)), TheOne(c.ret))))

\* FTokenManager.getOrCreate
FTokenGetOrCreate(m, contractAddress, contractStandard) ==
    Bind(Get(m, "fToken", contractAddress), LAMBDA g :
    IF g.thrown THEN g
    ELSE Bind(IF g.ret = {} \/ Falsy(TheOne(g.ret).name)
                            \/ Falsy(TheOne(g.ret).symbol)
              THEN createFToken(g, contractAddress, contractStandard)
              ELSE g,
              LAMBDA c : Ret(Add(c, "fToken", TheOne(c.ret)), TheOne(c.ret))))

\* tokens createNfToken
createNfToken(m, id, nativeId, contractAddress, contractStandard, owner) ==
    Bind(getTokenDetails(m.det, contractStandard, TRUE), LAMBDA d :
    Bind(CollectionGetOrCreate(
             [m EXCEPT !.enriched = Append(@, id),
                       !.asked = @ \o readsOf("nfToken", id,
                                              contractStandard, TRUE)],
             contractAddress, contractStandard), LAMBDA c :
    IF c.thrown THEN c
    ELSE Ret(c, [nativeId |-> DecStr(nativeId), currentOwner |-> owner,
                 isBurned |-> FALSE, amount |-> 0, id |-> id,
                 name |-> d.name, symbol |-> d.symbol, uri |-> d.uri,
                 collection |-> TheOne(c.ret).id])))

\* NfTokenManager.getOrCreate
NfTokenGetOrCreate(m, id, contractAddress, contractStandard, owner) ==
    Bind(getTokenEntityId(contractAddress, DecStr(id)), LAMBDA tokenEntityId :
    Bind(Get(m, "nfToken", tokenEntityId), LAMBDA g :
    IF g.thrown THEN g
    ELSE Bind(IF g.ret = {} \/ Falsy(TheOne(g.ret).name)
                            \/ Falsy(TheOne(g.ret).symbol)
              THEN createNfToken(g, tokenEntityId, id, contractAddress,
                                 contractStandard, owner)
              ELSE g,
              LAMBDA c :
                  IF c.thrown THEN c
                  ELSE Ret(Add(c, "nfToken", TheOne(c.ret)), TheOne(c.ret)))))


\* tokens/utils getTokenBalanceOf: the balance the contract reports
getTokenBalanceOf(m) == m.bals[m.reads + 1]

\* accountFTokenBalances createAccountFTokenBalances
createAccountFTokenBalances(account, token, amount) ==
    [id |-> getAccountFTokenBalanceEntityId(account, token),
     token |-> token, account |-> account, amount |-> amount]

\* AccountFTokenBalancesManager.getOrCreate (it does not add the row)
BalanceGetOrCreate(m, id, account, token) ==
    Bind(IF id # <<>> THEN Get(m, "accountFTokenBalance", id)
         ELSE [m EXCEPT !.ret = {}],
         LAMBDA g :
             IF g.thrown \/ g.ret # {} THEN g
             ELSE Ret([g EXCEPT
                          !.reads = @ + 1,
                          !.asked = Append(@, [kind |-> "accountFTokenBalance",
                                               id |-> <<account, token>>,
                                               field |-> "amount",
                                               no |-> g.reads + 1])],
                      createAccountFTokenBalances(account, token,
                                                  getTokenBalanceOf(g))))

\* the live balance reads of one resolver call: the id of the row the read
\* was made for and the amount the contract answered
balanceReads(m) ==
    Bind(SelectSeq(m.asked, LAMBDA q : q.kind = "accountFTokenBalance"),
         LAMBDA reads :
             [i \in 1..Len(reads) |->
                 [id |-> getAccountFTokenBalanceEntityId(reads[i].id[1],
                                                         reads[i].id[2]),
                  amount |-> m.bals[reads[i].no]]])

\* the switch of updateFTokenBalance on the action
applyAction(row, amount, action) ==
    CASE action = "add" -> [row EXCEPT !.amount = @ + amount]
      [] action = "sub" -> [row EXCEPT !.amount = @ - amount]
      [] OTHER -> row

\* updateFTokenBalance that does not cache the row it creates
updateFTokenBalanceNoAdd(m, account, token, amount, action) ==
    Bind(getAccountFTokenBalanceEntityId(account, token),
         LAMBDA accountBalanceId :
    Bind(Get(m, "accountFTokenBalance", accountBalanceId), LAMBDA g :
    IF g.thrown THEN g
    ELSE IF g.ret = {}
    THEN BalanceGetOrCreate(g, accountBalanceId, account, token)
    ELSE Add(g, "accountFTokenBalance",
             applyAction(TheOne(g.ret), amount, action))))

\* updateFTokenBalance that also applies the amount to the row it creates
updateFTokenBalanceEager(m, account, token, amount, action) ==
    Bind(getAccountFTokenBalanceEntityId(account, token),
         LAMBDA accountBalanceId :
    Bind(Get(m, "accountFTokenBalance", accountBalanceId), LAMBDA g :
    Bind(IF g.thrown \/ g.ret # {} THEN g
         ELSE BalanceGetOrCreate(g, accountBalanceId, account, token),
         LAMBDA c :
             IF c.thrown THEN c
             ELSE Add(c, "accountFTokenBalance",
                      applyAction(TheOne(c.ret), amount, action)))))

\* AccountFTokenBalancesManager.updateFTokenBalance
updateFTokenBalance(m, account, token, amount, action) ==
    Bind(getAccountFTokenBalanceEntityId(account, token),
         LAMBDA accountBalanceId :
    Bind(Get(m, "accountFTokenBalance", accountBalanceId), LAMBDA g :
    IF g.thrown THEN g
    ELSE IF g.ret = {}
    THEN Bind(BalanceGetOrCreate(g, accountBalanceId, account, token),
              LAMBDA c :
                  IF c.thrown THEN c
                  ELSE Add(c, "accountFTokenBalance", TheOne(c.ret)))
    ELSE Add(g, "accountFTokenBalance",
             applyAction(TheOne(g.ret), amount, action))))

\* FtTransferManager.getOrCreate
FtTransferGetOrCreate(m, event, from, to, amount) ==
    Bind(AccountsGetOrCreate(m, from), LAMBDA a1 :
    Bind(AccountsGetOrCreate(a1, to), LAMBDA a2 :
    Bind(FTokenGetOrCreate(a2, event.address, "ERC20"), LAMBDA t :
    IF t.thrown THEN t
    ELSE Bind([id |-> event.id, from |-> from, to |-> to,
               token |-> TheOne(t.ret).id, amount |-> amount,
               transferType |-> getTransferType(from, to)],
              LAMBDA transfer : Ret(Add(t, "ftTransfer", transfer), transfer)))))

\* NftTransferManager.getOrCreate after the accounts are resolved: the token,
\* its supply and burned status, the transfer
nftTransferOf(a, event, from, to, operator, amount, tokenId, isBatch, contractStandard) ==
    Bind(NfTokenGetOrCreate(a, tokenId, event.address, contractStandard, to),
         LAMBDA t :
    IF t.thrown THEN t
    ELSE
    Bind(getTransferType(from, to), LAMBDA transferType :
    Bind(getTokenTotalSupply(TheOne(t.ret).amount, amount, transferType),
         LAMBDA supply :
    Bind([TheOne(t.ret) EXCEPT
             !.amount = supply,
             !.isBurned = IF contractStandard = "ERC721"
                          THEN transferType = "BURN"
                          ELSE getTokenBurnedStatus(supply)],
         LAMBDA token :
    Bind([id |-> getNftTransferEntityId(event.id, DecStr(tokenId)),
          amount |-> amount, from |-> from, to |-> to,
          operator |-> operator, transferType |-> transferType,
          token |-> token.id, isBatch |-> isBatch],
         LAMBDA transfer :
             Ret(Add(Add(t, "nfToken", token), "nftTransfer", transfer),
                 transfer))))))

\* NftTransferManager.getOrCreate that ignores the operator
NftTransferGetOrCreateNoOperator(m, event, from, to, operator, amount, tokenId, isBatch, contractStandard) ==
    Bind(AccountsGetOrCreate(m, from), LAMBDA a1 :
    Bind(AccountsGetOrCreate(a1, to), LAMBDA a2 :
    nftTransferOf(a2, event, from, to, NoAccount, amount, tokenId, isBatch,
                  contractStandard)))

\* NftTransferManager.getOrCreate
NftTransferGetOrCreate(m, event, from, to, operator, amount, tokenId, isBatch, contractStandard) ==
    Bind(AccountsGetOrCreate(m, from), LAMBDA a1 :
    Bind(AccountsGetOrCreate(a1, to), LAMBDA a2 :
    Bind(IF operator # NoAccount THEN AccountsGetOrCreate(a2, operator)
         ELSE a2,
         LAMBDA a3 :
             nftTransferOf(a3, event, from, to, operator, amount, tokenId,
                           isBatch, contractStandard))))

\* accountTransfer createAccountFtTransfer / createAccountNftTransfer
createAccountFtTransfer(account, transfer, direction) ==
    [id |-> getAccountTransferEntityId(account, transfer.id),
     transfer |-> transfer.id, account |-> account, direction |-> direction]

createAccountNftTransfer(account, transfer, direction) ==
    [id |-> getAccountTransferEntityId(account, transfer.id),
     transfer |-> transfer.id, account |-> account, direction |-> direction]

\* AccountsFtTransferManager.getOrCreate, called without an id
AccountsFtTransferGetOrCreate(m, account, transfer, direction) ==
    IF m.thrown THEN m
    ELSE IF ~context THEN Throw(m, "context")
    ELSE Add(m, "accountFtTransfer",
             createAccountFtTransfer(account, transfer, direction))

\* AccountsNftTransferManager.getOrCreate, called without an id
AccountsNftTransferGetOrCreate(m, account, transfer, direction) ==
    IF m.thrown THEN m
    ELSE IF ~context THEN Throw(m, "context")
    ELSE Add(m, "accountNftTransfer",
             createAccountNftTransfer(account, transfer, direction))

\* uriUpdateActions createUriUpdateActions
createUriUpdateActions(id, token, newValue, oldValue) ==
    [id |-> id, token |-> token, newValue |-> newValue, oldValue |-> oldValue]

\* UriUpdateActionsManager.getOrCreate
UriUpdateActionsGetOrCreate(m, id, token, newValue, oldValue) ==
    Bind(Get(m, "uriUpdateAction", id), LAMBDA g :
    IF g.thrown THEN g
    ELSE Bind(IF g.ret = {}
              THEN createUriUpdateActions(id, token, newValue, oldValue)
              ELSE TheOne(g.ret),
              LAMBDA action :
                  Ret(Add(g, "uriUpdateAction", action), action)))


\* ------------------------------------------------------------------------
\* Event decoding (abi/erc20, abi/erc721): a Transfer-topic log decodes as
\* the ERC20 event, as the ERC721 event, or as neither
\* ------------------------------------------------------------------------
decodesAsErc20(event) == event.shape = "erc20"

decodesAsErc721(event) == event.shape = "erc721"

\* ------------------------------------------------------------------------
\* Event resolvers
\* ------------------------------------------------------------------------
handleErc20Transfer(m, event) ==
    IF ~decodesAsErc20(event) THEN Throw(m, "decode")
    ELSE
    Bind(event.values[1], LAMBDA amount :
    Bind(FtTransferGetOrCreate(m, event, event.from, event.to, amount),
         LAMBDA t :
    IF t.thrown THEN t
    ELSE
    Bind(TheOne(t.ret), LAMBDA transfer :
    Bind(AccountsFtTransferGetOrCreate(t, transfer.from, transfer, "From"),
         LAMBDA j1 :
    Bind(updateFTokenBalance(j1, transfer.from, transfer.token, amount, "sub"),
         LAMBDA b1 :
    Bind(AccountsFtTransferGetOrCreate(b1, transfer.to, transfer, "To"),
         LAMBDA j2 :
    updateFTokenBalance(j2, transfer.to, transfer.token, amount, "add")))))))

\* the two accountsNftTransferManager.getOrCreate calls of a resolver
NftJoinRows(m) ==
    IF m.thrown THEN m
    ELSE Bind(TheOne(m.ret), LAMBDA transfer :
         Bind(AccountsNftTransferGetOrCreate(m, transfer.from, transfer,
                                             "From"),
              LAMBDA j1 :
         AccountsNftTransferGetOrCreate(j1, transfer.to, transfer, "To")))

handleErc721Transfer(m, event) ==
    IF ~decodesAsErc721(event) THEN Throw(m, "decode")
    ELSE Bind(NftTransferGetOrCreate(m, event, event.from, event.to,
                                     NoAccount, 1, event.ids[1], FALSE,
                                     "ERC721"),
              LAMBDA t : NftJoinRows(t))

handleErc1155TransferSingle(m, event) ==
    Bind(NftTransferGetOrCreate(m, event, event.from, event.to,
                                event.operator, event.values[1],
                                event.ids[1], FALSE, "ERC1155"),
         LAMBDA t : NftJoinRows(t))

RECURSIVE transferBatchFrom(_, _, _)
transferBatchFrom(m, event, i) ==
    IF m.thrown \/ i > Len(event.ids) THEN m
    ELSE Bind(NftTransferGetOrCreate(m, event, event.from, event.to,
                                     event.operator, event.values[i],
                                     event.ids[i], TRUE, "ERC1155"),
              LAMBDA t :
         Bind(NftJoinRows(t), LAMBDA j : transferBatchFrom(j, event, i + 1)))

handleErc1155TransferBatch(m, event) == transferBatchFrom(m, event, 1)

\* handleErc1155UriChanged that reads the old value after the assignment
handleErc1155UriChangedLate(m, event) ==
    Bind(getTokenEntityId(event.address, DecStr(event.ids[1])),
         LAMBDA tokenEntityId :
    Bind(Get(m, "nfToken", tokenEntityId), LAMBDA g :
    IF g.thrown THEN g
    ELSE IF g.ret = {} THEN Throw(g, "missing")
    ELSE
    Bind([TheOne(g.ret) EXCEPT !.uri = event.uri], LAMBDA token :
    Bind(IF Falsy(token.uri) THEN NULL ELSE token.uri, LAMBDA oldUriVal :
    Bind(IF tokenEntityId \in DOMAIN m.map["nfToken"]
         THEN Add(g, "nfToken", token) ELSE g,
         LAMBDA w :
    Bind(UriUpdateActionsGetOrCreate(w, event.id, token.id, event.uri,
                                     oldUriVal),
         LAMBDA u : IF u.thrown THEN u ELSE Add(u, "nfToken", token)))))))

handleErc1155UriChanged(m, event) ==
    Bind(getTokenEntityId(event.address, DecStr(event.ids[1])),
         LAMBDA tokenEntityId :
    Bind(Get(m, "nfToken", tokenEntityId), LAMBDA g :
    IF g.thrown THEN g
    ELSE IF g.ret = {} THEN Throw(g, "missing")
    ELSE
    Bind(IF Falsy(TheOne(g.ret).uri) THEN NULL ELSE TheOne(g.ret).uri,
         LAMBDA oldUriVal :
    Bind([TheOne(g.ret) EXCEPT !.uri = event.uri], LAMBDA token :
    \* token.uri = value writes through to the cached instance
    Bind(IF tokenEntityId \in DOMAIN m.map["nfToken"]
         THEN Add(g, "nfToken", token) ELSE g,
         LAMBDA w :
    Bind(UriUpdateActionsGetOrCreate(w, event.id, token.id, event.uri,
                                     oldUriVal),
         LAMBDA u : IF u.thrown THEN u ELSE Add(u, "nfToken", token)))))))


\* ------------------------------------------------------------------------
\* The logs the data source can deliver.  A run draws its logs from one
\* feed: the logs of one token standard.
\* ------------------------------------------------------------------------
Log(topic, shape, address, from, to, operator, ids, values, uri) ==
    [topic |-> topic, shape |-> shape, address |-> address, from |-> from,
     to |-> to, operator |-> operator, ids |-> ids, values |-> values,
     uri |-> uri, id |-> <<>>]

Erc20Logs ==
    {Log("Transfer", "erc20", FtContract, f, t, NoAccount, <<>>, <<v>>, NULL) :
        f \in {AddrA, AddrB}, t \in {AddrA, AddrB}, v \in FtAmounts}

Erc721Logs ==
    {Log("Transfer", "erc721", NftContract, f, t, NoAccount, <<i>>, <<>>, NULL) :
        f \in {EMPTY_ADDRESS, AddrA}, t \in Addresses, i \in {1}}

UnknownLogs ==
    {Log("Transfer", "none", FtContract, AddrA, AddrB, NoAccount, <<>>, <<>>,
         NULL)}

TransferSingleLogs ==
    {Log("TransferSingle", "erc1155", NftContract, f, t, o, <<i>>, <<v>>, NULL) :
        f \in {EMPTY_ADDRESS, AddrB}, t \in Addresses, o \in {AddrA},
        i \in {1}, v \in {2}}

TransferBatchLogs ==
    {Log("TransferBatch", "erc1155", NftContract, f, t, o, is, <<1, 2>>, NULL) :
        f \in {EMPTY_ADDRESS, AddrB}, t \in {EMPTY_ADDRESS, AddrB},
        o \in {AddrA}, is \in {<<1, i>> : i \in TokenIds}}

UriLogs ==
    {Log("URI", "erc1155", NftContract, NoAccount, NoAccount, NoAccount, <<i>>,
         <<>>, u) : i \in TokenIds, u \in Uris}

LogsOf(f) ==
    CASE f = "erc20" -> Erc20Logs \cup UnknownLogs
      [] f = "erc721" -> Erc721Logs \cup UnknownLogs
      [] f = "single" -> TransferSingleLogs \cup UriLogs
      [] f = "batch" -> TransferBatchLogs \cup UriLogs

\* ------------------------------------------------------------------------
\* EntitiesManager.prefetchEntities of one manager: one store.find per chunk
\* of the accumulated ids, every row found is added, the list is reset
\* ------------------------------------------------------------------------
Range(seq) == {seq[i] : i \in 1..Len(seq)}

RECURSIVE addAll(_, _)
addAll(map, rows) ==
    IF rows = {} THEN map
    ELSE LET r == CHOOSE x \in rows : TRUE
         IN  addAll((r.id :> r) @@ map, rows \ {r})

RECURSIVE prefetchChunks(_, _, _)
prefetchChunks(p, kind, chunks) ==
    IF chunks = <<>> THEN p
    ELSE LET chunk == Head(chunks)
             chunkRes == {store[kind][id] :
                             id \in Range(chunk) \cap DOMAIN store[kind]}
         IN  prefetchChunks(
                [map |-> addAll(p.map, chunkRes),
                 calls |-> Append(p.calls, [op |-> "find", kind |-> kind,
                                            ids |-> Range(chunk),
                                            where |-> chunk])],
                kind, Tail(chunks))

\* prefetchEntities without the early return on an empty list
ManagerPrefetchNoGuard(p, kind) ==
    LET q == prefetchChunks([map |-> p.map[kind], calls |-> p.calls], kind,
                 splitIntoBatches(prefetchItemIdsList[kind],
                                  PrefetchChunkSize))
    IN  [map |-> [p.map EXCEPT ![kind] = q.map], calls |-> q.calls]

ManagerPrefetch(p, kind) ==
    IF prefetchItemIdsList[kind] = <<>> THEN p
    ELSE LET q == prefetchChunks([map |-> p.map[kind], calls |-> p.calls], kind,
                      splitIntoBatches(prefetchItemIdsList[kind],
                                       PrefetchChunkSize))
         IN  [map |-> [p.map EXCEPT ![kind] = q.map], calls |-> q.calls]

\* the managers utils/entityUtils prefetchEntities calls prefetchEntities on
PrefetchedKinds == <<"account", "fToken", "nfToken", "accountFTokenBalance">>

RECURSIVE prefetchFrom(_, _)
prefetchFrom(p, i) ==
    IF i > Len(PrefetchedKinds) THEN p
    ELSE prefetchFrom(ManagerPrefetch(p, PrefetchedKinds[i]), i + 1)

\* the ids one log adds to the prefetch lists (the scan of prefetchEntities)
ScanIds(event) ==
    LET none == [k \in KindSet |-> <<>>] IN
    CASE event.topic = "Transfer" /\ decodesAsErc20(event) ->
            [none EXCEPT
                !["account"] = <<event.from, event.to>>,
                !["fToken"] = <<event.address>>,
                !["accountFTokenBalance"] =
                    <<getAccountFTokenBalanceEntityId(event.from, event.address),
                      getAccountFTokenBalanceEntityId(event.to, event.address)>>]
      [] event.topic = "Transfer" /\ ~decodesAsErc20(event)
                                  /\ decodesAsErc721(event) ->
            [none EXCEPT
                !["account"] = <<event.from, event.to>>,
                !["nfToken"] = <<getTokenEntityId(event.address,
                                                  DecStr(event.ids[1]))>>,
                !["collection"] = <<event.address>>]
      [] event.topic = "TransferBatch" ->
            [none EXCEPT
                !["account"] = <<event.operator, event.from, event.to>>,
                !["nfToken"] = [i \in 1..Len(event.ids) |->
                                   getTokenEntityId(event.address,
                                                    DecStr(event.ids[i]))],
                !["collection"] = <<event.address>>]
      [] event.topic = "TransferSingle" ->
            [none EXCEPT
                !["account"] = <<event.operator, event.from, event.to>>,
                !["nfToken"] = <<getTokenEntityId(event.address,
                                                  DecStr(event.ids[1]))>>,
                !["collection"] = <<event.address>>]
      [] event.topic = "URI" ->
            [none EXCEPT
                !["nfToken"] = <<getTokenEntityId(event.address,
                                                  DecStr(event.ids[1]))>>]
      [] OTHER -> none

\* ------------------------------------------------------------------------
\* The batch handler of processor.run
\* ------------------------------------------------------------------------
\* utils.entity.initAllEntityManagers(ctx): a new batch enters the handler
initAllEntityManagers ==
    /\ pc \in {"INIT", "DONE"}
    /\ batchNo < MaxBatches
    /\ logsSeen < MaxLogs
    /\ pc' = "PREFETCHING"
    /\ batchNo' = batchNo + 1
    /\ context' = TRUE
    /\ blocks' = <<>>
    /\ idx' = 1
    /\ calls' = <<>>
    /\ last' = NoLast
    /\ saves' = <<>>
    /\ UNCHANGED <<feed, logsSeen, faults, entitiesMap, prefetchItemIdsList, store,
                   api>>

\* prefetchEntities, one iteration of its scan: the next log of ctx.blocks
ScanLog ==
    /\ pc = "PREFETCHING"
    /\ Len(blocks) < MaxBatchLen
    /\ logsSeen < MaxLogs
    /\ \E log \in LogsOf(feed) :
          LET event == [log EXCEPT !.id = DecStr(batchNo) \o <<"-">>
                                            \o DecStr(Len(blocks) + 1)]
              ids == ScanIds(event)
          IN  /\ blocks' = Append(blocks, event)
              /\ prefetchItemIdsList' =
                    [k \in KindSet |-> prefetchItemIdsList[k] \o ids[k]]
    /\ logsSeen' = logsSeen + 1
    /\ UNCHANGED <<feed, pc, batchNo, faults, context, idx, entitiesMap, store,
                   calls, last, saves, api>>

\* prefetchEntities, after the scan: the bulk finds
prefetchEntities ==
    /\ pc = "PREFETCHING"
    /\ LET p == prefetchFrom([map |-> entitiesMap, calls |-> calls], 1)
       IN  /\ entitiesMap' = p.map
           /\ calls' = p.calls
    /\ prefetchItemIdsList' =
          [k \in KindSet |-> IF k \in Range(PrefetchedKinds) THEN <<>>
                             ELSE prefetchItemIdsList[k]]
    /\ pc' = "PROCESSING"
    /\ UNCHANGED <<feed, batchNo, logsSeen, faults, context, blocks, idx, store,
                   last, saves, api>>


\* what the environment answers during one resolver call: which store.get
\* rejects (0: none), what the contract reads return
MaxFailAt == 2
FailChoices == IF faults < MaxFaults THEN 0..MaxFailAt ELSE {0}
BalanceReads == [1..2 -> BootBalances]

Resume(m) == [m EXCEPT !.thrown = FALSE, !.cause = "", !.ret = {}]

Injected(m) == IF m.failAt # 0 /\ m.gets >= m.failAt THEN 1 ELSE 0

\* the Transfer case without the ERC721 fallback: the error is swallowed
TransferCaseNoFallback(m, event) ==
    Bind(handleErc20Transfer(m, event), LAMBDA r20 :
    [m |-> Resume(r20), ran |-> {"erc20"},
     threw |-> IF r20.thrown THEN {"erc20"} ELSE {}, cause |-> r20.cause])

\* the Transfer case of the switch: handleErc20Transfer, and in its catch
\* handleErc721Transfer, whose error is swallowed
TransferCase(m, event) ==
    Bind(handleErc20Transfer(m, event), LAMBDA r20 :
    IF ~r20.thrown
    THEN [m |-> r20, ran |-> {"erc20"}, threw |-> {}, cause |-> ""]
    ELSE Bind(handleErc721Transfer(Resume(r20), event), LAMBDA r721 :
         [m |-> Resume(r721), ran |-> {"erc20", "erc721"},
          threw |-> IF r721.thrown THEN {"erc20", "erc721"} ELSE {"erc20"},
          cause |-> r20.cause]))

\* the name of the resolver of the other cases
resolverOf(topic) ==
    CASE topic = "TransferBatch" -> "erc1155Batch"
      [] topic = "TransferSingle" -> "erc1155Single"
      [] topic = "URI" -> "erc1155Uri"

\* the switch with the URI case in a try whose catch is empty
PlainCaseSkipUri(m, event) ==
    Bind(CASE event.topic = "TransferBatch" ->
                  handleErc1155TransferBatch(m, event)
           [] event.topic = "TransferSingle" ->
                  handleErc1155TransferSingle(m, event)
           [] event.topic = "URI" -> Resume(handleErc1155UriChanged(m, event)),
         LAMBDA r :
             [m |-> r, ran |-> {resolverOf(event.topic)},
              threw |-> IF r.thrown THEN {resolverOf(event.topic)} ELSE {},
              cause |-> r.cause])

\* the other cases of the switch: the resolver is awaited outside any try
PlainCase(m, event) ==
    Bind(CASE event.topic = "TransferBatch" ->
                  handleErc1155TransferBatch(m, event)
           [] event.topic = "TransferSingle" ->
                  handleErc1155TransferSingle(m, event)
           [] event.topic = "URI" -> handleErc1155UriChanged(m, event),
         LAMBDA r :
             [m |-> r, ran |-> {resolverOf(event.topic)},
              threw |-> IF r.thrown THEN {resolverOf(event.topic)} ELSE {},
              cause |-> r.cause])

\* one item of the processing loop; an error that leaves the switch leaves
\* the handler
Applied(r) ==
    /\ entitiesMap' = r.m.map
    /\ calls' = r.m.calls
    /\ faults' = faults + Injected(r.m)
    /\ last' = [log |-> blocks[idx], ran |-> r.ran, threw |-> r.threw,
                cause |-> r.cause, enriched |-> r.m.enriched,
                booted |-> last.booted \o balanceReads(r.m)]
    /\ IF r.m.thrown
       THEN pc' = "FAILED" /\ idx' = idx
       ELSE pc' = pc /\ idx' = idx + 1
    /\ UNCHANGED <<feed, batchNo, logsSeen, context, blocks, prefetchItemIdsList,
                   store, saves>>

\* the item handled in one step
Dispatched(r) == Applied(r) /\ UNCHANGED api

ProcessTransfer ==
    /\ pc = "PROCESSING"
    /\ idx <= Len(blocks)
    /\ blocks[idx].topic = "Transfer"
    /\ \E failAt \in FailChoices, det \in DetailsSet, bals \in BalanceReads :
          \E r \in {TransferCase(Machine(failAt, det, bals), blocks[idx])} :
             Dispatched(r)

ProcessErc1155 ==
    /\ pc = "PROCESSING"
    /\ idx <= Len(blocks)
    /\ blocks[idx].topic \in {"TransferBatch", "TransferSingle", "URI"}
    /\ \E failAt \in FailChoices, det \in DetailsSet, bals \in BalanceReads :
          \E r \in {PlainCase(Machine(failAt, det, bals), blocks[idx])} :
             Dispatched(r)

\* a flush that leaves the balances out
SaveOrderWithoutBalances ==
    <<"account", "collection", "fToken", "nfToken", "uriUpdateAction",
      "ftTransfer", "nftTransfer", "accountFtTransfer", "accountNftTransfer">>

\* a flush in another order
SaveOrderSwapped ==
    <<"collection", "account", "fToken", "nfToken", "uriUpdateAction",
      "ftTransfer", "nftTransfer", "accountFtTransfer",
      "accountNftTransfer", "accountFTokenBalance">>

\* a flush that saves the balances before the rows they point to
SaveOrderBalancesFirst ==
    <<"accountFTokenBalance", "account", "collection", "fToken", "nfToken",
      "uriUpdateAction", "ftTransfer", "nftTransfer", "accountFtTransfer",
      "accountNftTransfer">>

\* the kinds each kind holds a ManyToOne relation to
References ==
    [k \in KindSet |->
        CASE k = "nfToken" -> {"collection", "account"}
          [] k = "uriUpdateAction" -> {"nfToken"}
          [] k = "ftTransfer" -> {"account", "fToken"}
          [] k = "nftTransfer" -> {"account", "nfToken"}
          [] k = "accountFtTransfer" -> {"account", "ftTransfer"}
          [] k = "accountNftTransfer" -> {"account", "nftTransfer"}
          [] k = "accountFTokenBalance" -> {"account", "fToken"}
          [] OTHER -> {}]

\* the managers in the order saveAllEntities flushes them
SaveOrder == <<"account", "collection", "fToken", "nfToken", "uriUpdateAction",
               "ftTransfer", "nftTransfer", "accountFtTransfer",
               "accountNftTransfer", "accountFTokenBalance">>

\* which store.save of the flush rejects (0: none)
SaveFailChoices == IF faults < MaxFaults THEN 0..Len(SaveOrder) ELSE {0}

Flush(failAt) ==
    [store |-> store, map |-> entitiesMap, saves |-> saves, thrown |-> FALSE,
     failAt |-> failAt]

\* EntitiesManager.saveAll that swallows a rejected store.save
saveAllSwallow(s, kind) ==
    IF ~context THEN [s EXCEPT !.thrown = TRUE]
    ELSE IF Len(s.saves) + 1 = s.failAt
    THEN [s EXCEPT !.saves = Append(@, [kind |-> kind, ok |-> FALSE,
                                        ids |-> DOMAIN s.map[kind]]),
                   !.map[kind] = <<>>]
    ELSE [s EXCEPT !.saves = Append(@, [kind |-> kind, ok |-> TRUE,
                                        ids |-> DOMAIN s.map[kind]]),
                   !.store[kind] = s.map[kind] @@ @,
                   !.map[kind] = <<>>]

\* EntitiesManager.saveAll that does not clear entitiesMap
saveAllNoClear(s, kind) ==
    IF ~context THEN [s EXCEPT !.thrown = TRUE]
    ELSE IF Len(s.saves) + 1 = s.failAt
    THEN [s EXCEPT !.saves = Append(@, [kind |-> kind, ok |-> FALSE,
                                        ids |-> DOMAIN s.map[kind]]),
                   !.thrown = TRUE]
    ELSE [s EXCEPT !.saves = Append(@, [kind |-> kind, ok |-> TRUE,
                                        ids |-> DOMAIN s.map[kind]]),
                   !.store[kind] = s.map[kind] @@ @]

\* EntitiesManager.saveAll: store.save of every cached entity, then clear
saveAll(s, kind) ==
    IF ~context THEN [s EXCEPT !.thrown = TRUE]
    ELSE IF Len(s.saves) + 1 = s.failAt
    THEN [s EXCEPT !.saves = Append(@, [kind |-> kind, ok |-> FALSE,
                                        ids |-> DOMAIN s.map[kind]]),
                   !.thrown = TRUE]
    ELSE [s EXCEPT !.saves = Append(@, [kind |-> kind, ok |-> TRUE,
                                        ids |-> DOMAIN s.map[kind]]),
                   !.store[kind] = s.map[kind] @@ @,
                   !.map[kind] = <<>>]

\* saveAllEntities: the awaits in order; a rejection ends them
RECURSIVE saveFrom(_, _)
saveFrom(s, i) ==
    IF s.thrown \/ i > Len(SaveOrder) THEN s
    ELSE Bind(saveAll(s, SaveOrder[i]), LAMBDA n : saveFrom(n, i + 1))

\* saveAllEntities that flushes before the loop is over
saveAllEntitiesEarly ==
    /\ pc = "PROCESSING"
    /\ \E failAt \in SaveFailChoices :
          \E s \in {saveFrom(Flush(failAt), 1)} :
             /\ store' = s.store
             /\ entitiesMap' = s.map
             /\ saves' = s.saves
             /\ faults' = faults + (IF s.thrown THEN 1 ELSE 0)
             /\ pc' = IF s.thrown THEN "FAILED" ELSE "DONE"
    /\ UNCHANGED <<feed, batchNo, logsSeen, context, blocks, idx,
                   prefetchItemIdsList, calls, last, api>>

saveAllEntities ==
    /\ pc = "PROCESSING"
    /\ idx > Len(blocks)
    /\ \E failAt \in SaveFailChoices :
          \E s \in {saveFrom(Flush(failAt), 1)} :
             /\ store' = s.store
             /\ entitiesMap' = s.map
             /\ saves' = s.saves
             /\ faults' = faults + (IF s.thrown THEN 1 ELSE 0)
             /\ pc' = IF s.thrown THEN "FAILED" ELSE "DONE"
    /\ UNCHANGED <<feed, batchNo, logsSeen, context, blocks, idx,
                   prefetchItemIdsList, calls, last, api>>

Next ==
    \/ initAllEntityManagers
    \/ ScanLog
    \/ prefetchEntities
    \/ ProcessTransfer
    \/ ProcessErc1155
    \/ saveAllEntities

Spec == Init /\ [][Next]_vars

\* ------------------------------------------------------------------------
\* One EntitiesManager under an arbitrary client: the methods of the class
\* called in any order on the manager of the balances
\* ------------------------------------------------------------------------
MaxApiCalls == 4

ApiKind == "accountFTokenBalance"

ApiAccounts == {AddrA, AddrB}

ApiIds == {getAccountFTokenBalanceEntityId(a, FtContract) : a \in ApiAccounts}

ApiEntities ==
    {createAccountFTokenBalances(a, FtContract, v) :
        a \in ApiAccounts, v \in BootBalances}

\* the store the manager is bound to: empty, or holding the row of AddrA
ApiStores ==
    {EmptyMap,
     [EmptyMap EXCEPT ![ApiKind] =
         LET e == createAccountFTokenBalances(AddrA, FtContract, 10)
         IN  e.id :> e]}

ManagerInit ==
    /\ feed = "erc20"
    /\ pc = "INIT"
    /\ batchNo = 0
    /\ logsSeen = 0
    /\ faults = 0
    /\ context = FALSE
    /\ blocks = <<>>
    /\ idx = 1
    /\ entitiesMap = EmptyMap
    /\ prefetchItemIdsList = [k \in KindSet |-> <<>>]
    /\ store \in ApiStores
    /\ calls = <<>>
    /\ last = NoLast
    /\ saves = <<>>
    /\ api = NoApi

\* EntitiesManager.addPrefetchItemId: one id, or a list of ids
addPrefetchItemId(list, itemIdOrList) == list \o itemIdOrList

Called(op, id, threw, ret, queried) ==
    api' = [NoApi EXCEPT !.n = api.n + 1, !.op = op, !.prev = api.op,
                         !.id = id, !.threw = threw, !.ret = ret,
                         !.queried = queried, !.flushed = api.flushed]

\* a machine that returns from a manager call made by the client
Returned(r, op, id) ==
    /\ entitiesMap' = r.map
    /\ calls' = r.calls
    /\ faults' = faults + Injected(r)
    /\ Called(op, id, r.thrown, r.ret, Len(r.calls) > Len(calls))
    /\ UNCHANGED <<feed, pc, batchNo, logsSeen, context, blocks, idx,
                   prefetchItemIdsList, store, last, saves>>

ApiInit ==
    /\ api.n < MaxApiCalls
    /\ context' = TRUE
    /\ Called("init", <<>>, FALSE, {}, FALSE)
    /\ UNCHANGED <<feed, pc, batchNo, logsSeen, faults, blocks, idx,
                   entitiesMap, prefetchItemIdsList, store, calls, last, saves>>

ApiAdd ==
    /\ api.n < MaxApiCalls
    /\ \E e \in ApiEntities :
          \E r \in {Add(Machine(0, DetailsEmpty, <<0, 0>>), ApiKind, e)} :
             Returned(r, "add", e.id)

ApiAddPrefetchItemId ==
    /\ api.n < MaxApiCalls
    /\ \E id \in ApiIds :
          /\ prefetchItemIdsList' =
                [prefetchItemIdsList EXCEPT
                    ![ApiKind] = addPrefetchItemId(@, <<id>>)]
          /\ Called("addPrefetchItemId", id, FALSE, {}, FALSE)
    /\ UNCHANGED <<feed, pc, batchNo, logsSeen, faults, context, blocks, idx,
                   entitiesMap, store, calls, last, saves>>

ApiPrefetchEntities ==
    /\ api.n < MaxApiCalls
    /\ IF ~context
       THEN /\ Called("prefetchEntities", <<>>, TRUE, {}, FALSE)
            /\ UNCHANGED <<entitiesMap, calls, prefetchItemIdsList>>
       ELSE \E p \in {ManagerPrefetch([map |-> entitiesMap, calls |-> calls],
                                       ApiKind)} :
               /\ entitiesMap' = p.map
               /\ calls' = p.calls
               /\ prefetchItemIdsList' =
                     [prefetchItemIdsList EXCEPT ![ApiKind] = <<>>]
               /\ Called("prefetchEntities", <<>>, FALSE, {},
                         Len(p.calls) > Len(calls))
    /\ UNCHANGED <<feed, pc, batchNo, logsSeen, faults, context, blocks, idx,
                   store, last, saves>>

ApiGet ==
    /\ api.n < MaxApiCalls
    /\ \E id \in ApiIds, failAt \in FailChoices :
          \E r \in {Get(Machine(failAt, DetailsEmpty, <<0, 0>>), ApiKind, id)} :
             Returned(r, "get", id)

ApiGetOrCreate ==
    /\ api.n < MaxApiCalls
    /\ \E a \in ApiAccounts, bals \in BalanceReads :
          \E r \in {BalanceGetOrCreate(
                        Machine(0, DetailsEmpty, bals),
                        getAccountFTokenBalanceEntityId(a, FtContract), a,
                        FtContract)} :
             Returned(r, "getOrCreate",
                      getAccountFTokenBalanceEntityId(a, FtContract))

ApiUpdateFTokenBalance ==
    /\ api.n < MaxApiCalls
    /\ \E a \in ApiAccounts, action \in {"add", "sub"}, bals \in BalanceReads :
          \E r \in {updateFTokenBalance(Machine(0, DetailsEmpty, bals), a,
                                         FtContract, 3, action)} :
             Returned(r, "updateFTokenBalance",
                      getAccountFTokenBalanceEntityId(a, FtContract))

ApiSaveAll ==
    /\ api.n < MaxApiCalls
    /\ \E failAt \in IF faults < MaxFaults THEN {0, Len(saves) + 1} ELSE {0} :
          \E s \in {saveAll(Flush(failAt), ApiKind)} :
             /\ store' = s.store
             /\ entitiesMap' = s.map
             /\ saves' = s.saves
             /\ faults' = faults + (IF s.thrown /\ context THEN 1 ELSE 0)
             /\ api' = [NoApi EXCEPT
                            !.n = api.n + 1, !.op = "saveAll", !.prev = api.op,
                            !.threw = s.thrown,
                            !.flushed = IF s.thrown THEN api.flushed
                                        ELSE DOMAIN entitiesMap[ApiKind]]
    /\ UNCHANGED <<feed, pc, batchNo, logsSeen, context, blocks, idx,
                   prefetchItemIdsList, calls, last>>

ManagerNext ==
    \/ ApiInit
    \/ ApiAdd
    \/ ApiAddPrefetchItemId
    \/ ApiPrefetchEntities
    \/ ApiGet
    \/ ApiGetOrCreate
    \/ ApiUpdateFTokenBalance
    \/ ApiSaveAll

ManagerSpec == ManagerInit /\ [][ManagerNext]_vars

\* ------------------------------------------------------------------------
\* The prefetch of one EntitiesManager on long id lists: the client hands
\* addPrefetchItemId an array, as the scan of a batch does
\* ------------------------------------------------------------------------
MaxPrefetchIds == 2001

PrefetchLens == {1, PrefetchChunkSize - 1, PrefetchChunkSize,
                 PrefetchChunkSize + 1}

\* an array of n ids: the id of AddrB, and at position mark the id of AddrA
IdList(n, mark) ==
    [i \in 1..n |->
        getAccountFTokenBalanceEntityId(IF i = mark THEN AddrA ELSE AddrB,
                                        FtContract)]

ApiIdLists ==
    UNION {{IdList(n, mark) : mark \in {0, 1, n}} : n \in PrefetchLens}

ApiAddPrefetchItemIdList ==
    /\ api.n < MaxApiCalls
    /\ \E list \in ApiIdLists :
          /\ Len(prefetchItemIdsList[ApiKind]) + Len(list) <= MaxPrefetchIds
          /\ prefetchItemIdsList' =
                [prefetchItemIdsList EXCEPT
                    ![ApiKind] = addPrefetchItemId(@, list)]
          /\ Called("addPrefetchItemId", <<>>, FALSE, {}, FALSE)
    /\ UNCHANGED <<feed, pc, batchNo, logsSeen, faults, context, blocks, idx,
                   entitiesMap, store, calls, last, saves>>

PrefetchNext ==
    \/ ApiInit
    \/ ApiAddPrefetchItemIdList
    \/ ApiPrefetchEntities

PrefetchSpec == ManagerInit /\ [][PrefetchNext]_vars

\* ------------------------------------------------------------------------
\* getTokenDetails on its own: the arguments of the call and the outcomes
\* of the four reads are drawn at the start, the call is made once
\* ------------------------------------------------------------------------
Sentinel == <<"0", "0", "0", "6", "6", "4", "8", "9", "3", "6", ".", "1", "e",
              "c", "7">>

\* strings a contract can answer: clean, with null bytes, empty, the string
\* the pattern was written for, another string of the pattern, the pattern
\* with a null byte after it, nine digits before the dot
RawStrings ==
    {<<"M", "y">>,
     <<"M", "y", NUL, "T", NUL>>,
     <<>>,
     Sentinel,
     <<"1", "2", "3", "4", "5", "6", "7", "8", "9", "0", ".", "z", "_", "|", "Z">>,
     Sentinel \o <<NUL>>,
     Tail(Sentinel)}

ReadOutcomes(values) == {Rejects} \cup {Answer(v) : v \in values}

RawDetails ==
    [name : ReadOutcomes(RawStrings),
     symbol : ReadOutcomes({<<"S">>, <<"S", NUL>>, Sentinel}),
     decimals : ReadOutcomes({<<"18">>}),
     uri : ReadOutcomes({<<"u", "0">>, <<NUL, "u", NUL>>, Sentinel})]

ContractStandards == {"ERC20", "ERC721", "ERC1155"}

DetailsInit ==
    /\ feed = "erc20"
    /\ pc = "INIT"
    /\ batchNo = 0
    /\ logsSeen = 0
    /\ faults = 0
    /\ context = TRUE
    /\ blocks = <<>>
    /\ idx = 1
    /\ entitiesMap = EmptyMap
    /\ prefetchItemIdsList = [k \in KindSet |-> <<>>]
    /\ store = EmptyMap
    /\ calls = <<>>
    /\ last = NoLast
    /\ saves = <<>>
    /\ \E det \in RawDetails, cs \in ContractStandards, tid \in BOOLEAN :
          api = [NoApi EXCEPT !.det = det, !.contractStandard = cs,
                              !.withTokenId = tid]

ApiGetTokenDetails ==
    /\ api.n = 0
    /\ api' = [api EXCEPT
                  !.n = 1, !.op = "getTokenDetails",
                  !.ret = {getTokenDetails(api.det, api.contractStandard,
                                           api.withTokenId)}]
    /\ UNCHANGED <<feed, pc, batchNo, logsSeen, faults, context, blocks, idx,
                   entitiesMap, prefetchItemIdsList, store, calls, last, saves>>

DetailsNext == ApiGetTokenDetails

DetailsSpec == DetailsInit /\ [][DetailsNext]_vars

\* ------------------------------------------------------------------------
\* The token managers under a client: getOrCreate of the FToken and of the
\* NfToken manager on a store that holds the token complete, incomplete,
\* or not at all
\* ------------------------------------------------------------------------
MaxTokenCalls == 3

\* the (name, symbol) of a stored token: both, no name, an empty symbol
StoredNames == {<<<<"O", "l", "d">>, <<"O">>>>, <<NULL, <<"O">>>>,
                <<<<"O", "l", "d">>, <<>>>>}

StoredFTokens ==
    {[id |-> FtContract, name |-> n[1], symbol |-> n[2], decimals |-> <<"6">>] :
        n \in StoredNames}

ApiTokenId == 1

ApiNfTokenId == getTokenEntityId(NftContract, DecStr(ApiTokenId))

StoredNfTokens ==
    {[nativeId |-> DecStr(ApiTokenId), currentOwner |-> AddrA,
      isBurned |-> FALSE, amount |-> 1, id |-> ApiNfTokenId, name |-> n[1],
      symbol |-> n[2], uri |-> <<"o">>, collection |-> NftContract] :
        n \in StoredNames}

RowsById(rows) == {<<>>} \cup {r.id :> r : r \in rows}

TokenStores ==
    {[EmptyMap EXCEPT !["fToken"] = ft, !["nfToken"] = nf] :
        ft \in RowsById(StoredFTokens), nf \in RowsById(StoredNfTokens)}

\* what the contract answers while a getOrCreate runs: all reads, none, and
\* two mixed cases whose strings need the normalisation
DetailsDirty ==
    [name |-> Answer(<<"M", "y", NUL, "T", NUL>>), symbol |-> Answer(Sentinel),
     decimals |-> Rejects, uri |-> Answer(Sentinel)]
DetailsPartial ==
    [name |-> Rejects, symbol |-> Answer(<<"S", NUL>>),
     decimals |-> Answer(<<"18">>), uri |-> Answer(<<NUL, "u", NUL>>)]
TokenDetailsSet == {DetailsNamed, DetailsEmpty, DetailsDirty, DetailsPartial}

TokenInit ==
    /\ feed = "erc20"
    /\ pc = "INIT"
    /\ batchNo = 0
    /\ logsSeen = 0
    /\ faults = 0
    /\ context = TRUE
    /\ blocks = <<>>
    /\ idx = 1
    /\ entitiesMap = EmptyMap
    /\ prefetchItemIdsList = [k \in KindSet |-> <<>>]
    /\ store \in TokenStores
    /\ calls = <<>>
    /\ last = NoLast
    /\ saves = <<>>
    /\ api = NoApi

\* a machine that returns from a getOrCreate of a token manager
TokenReturned(r, op, id, det, contractStandard) ==
    /\ entitiesMap' = r.map
    /\ calls' = r.calls
    /\ api' = [NoApi EXCEPT
                  !.n = api.n + 1, !.op = op, !.prev = api.op, !.id = id,
                  !.threw = r.thrown, !.ret = r.ret,
                  !.queried = Len(r.calls) > Len(calls), !.det = det,
                  !.contractStandard = contractStandard,
                  !.enriched = r.enriched]
    /\ UNCHANGED <<feed, pc, batchNo, logsSeen, faults, context, blocks, idx,
                   prefetchItemIdsList, store, last, saves>>

ApiFTokenGetOrCreate ==
    /\ api.n < MaxTokenCalls
    /\ \E det \in TokenDetailsSet :
          \E r \in {FTokenGetOrCreate(Machine(0, det, <<0, 0>>), FtContract,
                                       "ERC20")} :
             TokenReturned(r, "fTokenGetOrCreate", FtContract, det, "ERC20")

ApiNfTokenGetOrCreate ==
    /\ api.n < MaxTokenCalls
    /\ \E det \in TokenDetailsSet, cs \in {"ERC721", "ERC1155"} :
          \E r \in {NfTokenGetOrCreate(Machine(0, det, <<0, 0>>), ApiTokenId,
                                        NftContract, cs, AddrB)} :
             TokenReturned(r, "nfTokenGetOrCreate", ApiNfTokenId, det, cs)

TokenNext ==
    \/ ApiFTokenGetOrCreate
    \/ ApiNfTokenGetOrCreate

TokenSpec == TokenInit /\ [][TokenNext]_vars

\* ------------------------------------------------------------------------
\* The batch handler with its contract reads in flight.  A resolver is
\* suspended at each read it awaits; the transport answers the read, rejects
\* it, or stays silent, and a silent read is ended by the timer of
\* addTimeout.  The durable store answers every request.  api.held is the
\* suspended resolver, api.pending the reads it still awaits, api.timedOut
\* the reads the timer ended.  The handler is followed over its last batch.
\* ------------------------------------------------------------------------
LiveInit ==
    /\ feed \in Feeds
    /\ pc = "INIT"
    /\ batchNo = MaxBatches - 1
    /\ logsSeen = 0
    /\ faults = MaxFaults
    /\ context = FALSE
    /\ blocks = <<>>
    /\ idx = 1
    /\ entitiesMap = EmptyMap
    /\ prefetchItemIdsList = [k \in KindSet |-> <<>>]
    /\ store = EmptyMap
    /\ calls = <<>>
    /\ last = NoLast
    /\ saves = <<>>
    /\ api = NoApi

\* the fields whose read the transport may leave without an answer
Unanswered(det, bals) ==
    {f \in {"name", "symbol", "decimals", "uri"} : ~det[f].ok}
        \cup (IF \E i \in DOMAIN bals : bals[i] = 0 THEN {"amount"} ELSE {})

\* the reads the transport leaves without an answer during one resolver
\* call: none, those of the symbol and of the balance, or every read it
\* does not answer
SilentChoices(det, bals) ==
    {{}, Unanswered(det, bals) \cap {"symbol", "amount"}, Unanswered(det, bals)}

\* what the transport does with one read
transportOf(read, det, bals, silent) ==
    IF read.kind = "accountFTokenBalance"
    THEN IF "amount" \in silent /\ bals[read.no] = 0 THEN "silent"
         ELSE "answers"
    ELSE IF det[read.field].ok THEN "answers"
    ELSE IF read.field \in silent THEN "silent"
    ELSE "rejects"

\* the read awaited bare, without addTimeout
awaitBare(way) == way

\* addTimeout(read, contractCallTimeout): how the awaited promise ends
addTimeout(way) == IF way = "silent" THEN "timeout" ELSE way

\* the switch of the processing loop on the topic of the item
SwitchCase(m, event) ==
    IF event.topic = "Transfer" THEN TransferCase(m, event)
    ELSE PlainCase(m, event)

\* the loop calls the resolver of its next item, which runs up to its
\* first await of a contract read
LiveBegin ==
    /\ pc = "PROCESSING"
    /\ idx <= Len(blocks)
    /\ api.op # "await"
    /\ \E det \in DetailsSet, bals \in BalanceReads :
          \E silent \in SilentChoices(det, bals) :
             \E r \in {SwitchCase(Machine(0, det, bals), blocks[idx])} :
                api' = [NoApi EXCEPT
                           !.op = "await", !.held = {r},
                           !.pending =
                               [i \in 1..Len(r.m.asked) |->
                                   [read |-> r.m.asked[i],
                                    way |-> addTimeout(transportOf(
                                                r.m.asked[i], det, bals,
                                                silent))]]]
    /\ UNCHANGED <<feed, pc, batchNo, logsSeen, faults, context, blocks, idx,
                   entitiesMap, prefetchItemIdsList, store, calls, last, saves>>

\* the transport answers or rejects the awaited read
ReadSettles ==
    /\ api.op = "await"
    /\ api.pending # <<>>
    /\ Head(api.pending).way \in {"answers", "rejects"}
    /\ api' = [api EXCEPT !.pending = Tail(@)]
    /\ UNCHANGED <<feed, pc, batchNo, logsSeen, faults, context, blocks, idx,
                   entitiesMap, prefetchItemIdsList, store, calls, last, saves>>

\* the timer of addTimeout rejects the awaited read
TimerFires ==
    /\ api.op = "await"
    /\ api.pending # <<>>
    /\ Head(api.pending).way = "timeout"
    /\ api' = [api EXCEPT !.pending = Tail(@),
                          !.timedOut = Append(@, Head(api.pending).read)]
    /\ UNCHANGED <<feed, pc, batchNo, logsSeen, faults, context, blocks, idx,
                   entitiesMap, prefetchItemIdsList, store, calls, last, saves>>

\* the resolver returns to the loop after its last read
LiveFinish ==
    /\ api.op = "await"
    /\ api.pending = <<>>
    /\ \E r \in api.held : Applied(r)
    /\ api' = [NoApi EXCEPT !.op = "returned", !.timedOut = api.timedOut]

LiveNext ==
    \/ initAllEntityManagers
    \/ ScanLog
    \/ prefetchEntities
    \/ LiveBegin
    \/ ReadSettles
    \/ TimerFires
    \/ LiveFinish
    \/ saveAllEntities

\* the event loop runs every continuation that is ready: the handler's own
\* steps, the settled reads and the expired timers
LiveSpec ==
    /\ LiveInit
    /\ [][LiveNext]_vars
    /\ WF_vars(prefetchEntities)
    /\ WF_vars(LiveBegin)
    /\ WF_vars(ReadSettles)
    /\ WF_vars(TimerFires)
    /\ WF_vars(LiveFinish)
    /\ WF_vars(saveAllEntities)

\* ------------------------------------------------------------------------
\* The batch handler called a second time with the batch it was given
\* before: the data source delivers at least once.  The managers are module
\* level objects, so the call finds them as the previous call left them.
\* api.committed is the store and the batch of a first call that reached
\* the end of the flush.
\* ------------------------------------------------------------------------
\* the scan of prefetchEntities over the logs of a whole batch
RECURSIVE rescan(_, _, _)
rescan(lists, logs, i) ==
    IF i > Len(logs) THEN lists
    ELSE rescan([k \in KindSet |-> lists[k] \o ScanIds(logs[i])[k]], logs,
                i + 1)

\* the handler is called again with the same ctx.blocks: initAllEntityManagers
\* and the scan of prefetchEntities
Redeliver ==
    /\ pc \in {"DONE", "FAILED"}
    /\ batchNo < MaxBatches
    /\ blocks # <<>>
    /\ api.op = "none"
    /\ pc' = "PREFETCHING"
    /\ batchNo' = batchNo + 1
    /\ context' = TRUE
    /\ idx' = 1
    /\ calls' = <<>>
    /\ last' = NoLast
    /\ saves' = <<>>
    /\ prefetchItemIdsList' = rescan(prefetchItemIdsList, blocks, 1)
    /\ api' = [NoApi EXCEPT
                  !.op = "redelivered",
                  !.committed = IF pc = "DONE"
                                THEN {[store |-> store, blocks |-> blocks]}
                                ELSE {}]
    /\ UNCHANGED <<feed, logsSeen, faults, blocks, entitiesMap, store>>

\* the batches replayed are those of ERC20 logs and those of TransferSingle
\* and URI logs
ReplayInit == Init /\ feed \in {"erc20", "single"}

ReplayNext == Next \/ Redeliver

ReplaySpec == ReplayInit /\ [][ReplayNext]_vars

\* ------------------------------------------------------------------------
\* The identifier scheme as functions: two natural keys of one kind, and the
\* ids derived from them.  An address is 0x and 40 hexadecimal digits, here
\* its first six characters, the 30 in the middle, its last six; two
\* addresses may differ in the middle only.
\* ------------------------------------------------------------------------
Twin(address) == [address EXCEPT ![2] = "b"]

\* natural keys: (account, FtTransfer or NftTransfer id), (account, FToken
\* id), (contract address, native token id)
IdKeys ==
    {[fn |-> "accountTransfer", a |-> a, b |-> t] :
        a \in {AddrA, Twin(AddrA), AddrB},
        t \in {<<"1", "-", "1">>} \cup
              {getNftTransferEntityId(<<"1", "-", "1">>, DecStr(n)) :
                  n \in TokenIds}}
    \cup {[fn |-> "accountBalance", a |-> a, b |-> t] :
              a \in {AddrA, Twin(AddrA), AddrB},
              t \in {FtContract, Twin(FtContract)}}
    \cup {[fn |-> "token", a |-> a, b |-> DecStr(n)] :
              a \in {NftContract, Twin(NftContract)}, n \in TokenIds}

deriveId(key) ==
    CASE key.fn = "accountTransfer" -> getAccountTransferEntityId(key.a, key.b)
      [] key.fn = "accountBalance" ->
             getAccountFTokenBalanceEntityId(key.a, key.b)
      [] key.fn = "token" -> getTokenEntityId(key.a, key.b)

IdInit ==
    /\ feed = "erc20"
    /\ pc = "INIT"
    /\ batchNo = 0
    /\ logsSeen = 0
    /\ faults = 0
    /\ context = TRUE
    /\ blocks = <<>>
    /\ idx = 1
    /\ entitiesMap = EmptyMap
    /\ prefetchItemIdsList = [k \in KindSet |-> <<>>]
    /\ store = EmptyMap
    /\ calls = <<>>
    /\ last = NoLast
    /\ saves = <<>>
    /\ \E k1 \in IdKeys, k2 \in IdKeys :
          /\ k1.fn = k2.fn
          /\ api = [NoApi EXCEPT !.keys = <<k1, k2>>]

ApiDeriveIds ==
    /\ api.n = 0
    /\ api' = [api EXCEPT !.n = 1, !.op = "ids",
                          !.ret = {<<deriveId(api.keys[1]),
                                     deriveId(api.keys[2])>>}]
    /\ UNCHANGED <<feed, pc, batchNo, logsSeen, faults, context, blocks, idx,
                   entitiesMap, prefetchItemIdsList, store, calls, last, saves>>

IdSpec == IdInit /\ [][ApiDeriveIds]_vars

\* ------------------------------------------------------------------------
\* Properties
\* ------------------------------------------------------------------------
Rows(kind) == {entitiesMap[kind][id] : id \in DOMAIN entitiesMap[kind]}

\* the rows of a kind whose id begins with the id of the event
RowsOfEvent(kind, event) ==
    {r \in Rows(kind) : Len(r.id) >= Len(event.id)
                        /\ SubSeq(r.id, 1, Len(event.id)) = event.id}

\* the processing loop has just resolved its last item without an error
Resolved ==
    /\ pc = "PROCESSING"
    /\ last.log.topic # "none"
    /\ last.threw = {}

\* ... a Transfer log through the ERC721 resolver
ResolvedErc721 ==
    /\ pc = "PROCESSING"
    /\ last.log.topic = "Transfer"
    /\ "erc721" \in last.ran
    /\ "erc721" \notin last.threw

AccountCalls(a) ==
    {i \in 1..Len(calls) : calls[i].kind = "account" /\ a \in calls[i].ids}

\* C1: within one batch the store is queried (find or get) at most once for
\* every Account id
C1_AtMostOneFetch ==
    \A a \in Addresses : Cardinality(AccountCalls(a)) <= 1

BalanceKind == "accountFTokenBalance"

BalanceBefore(id) ==
    IF id \in DOMAIN entitiesMap[BalanceKind]
    THEN {entitiesMap[BalanceKind][id]}
    ELSE IF id \in DOMAIN store[BalanceKind] THEN {store[BalanceKind][id]}
    ELSE {}

\* the step that resolves an ERC20 Transfer without an error
Erc20Step ==
    /\ pc = "PROCESSING"
    /\ idx <= Len(blocks)
    /\ blocks[idx].topic = "Transfer"
    /\ decodesAsErc20(blocks[idx])
    /\ idx' = idx + 1
    /\ last'.threw = {}

Sent(event, a) == IF a = event.from THEN event.values[1] ELSE 0

Received(event, a) == IF a = event.to THEN event.values[1] ELSE 0

\* C2 as stated: after every ERC20 Transfer each side's balance row is its
\* starting balance (the row it had, or the bootstrap read when it had none)
\* minus what the event sent plus what it received
C2_BalanceFromStart ==
    [][Erc20Step =>
        LET event == blocks[idx] IN
        \A a \in {event.from, event.to} :
            LET id == getAccountFTokenBalanceEntityId(a, event.address)
                after == entitiesMap'[BalanceKind][id].amount
                prior == BalanceBefore(id)
                delta == Received(event, a) - Sent(event, a)
            IN  IF prior # {} THEN after = TheOne(prior).amount + delta
                ELSE \E b \in BootBalances : after = b + delta]_vars

\* C2 (amended): a row that exists is moved by the amounts of the event; a
\* row that does not exist is created with the value of the live read and
\* the call that creates it applies no amount (a self transfer that creates
\* its row adds the amount on the receiving side only)
C2_IncrementalBalance ==
    [][Erc20Step =>
        LET event == blocks[idx] IN
        \A a \in {event.from, event.to} :
            LET id == getAccountFTokenBalanceEntityId(a, event.address)
                after == entitiesMap'[BalanceKind][id].amount
                prior == BalanceBefore(id)
                delta == Received(event, a) - Sent(event, a)
            IN  IF prior # {} THEN after = TheOne(prior).amount + delta
                ELSE \E b \in BootBalances :
                        after = b + (IF event.from = event.to
                                     THEN event.values[1] ELSE 0)]_vars

C2_Witness ==
    /\ Resolved
    /\ decodesAsErc20(last.log)
    /\ last.log.from # last.log.to
    /\ LET id == getAccountFTokenBalanceEntityId(last.log.from,
                                                 last.log.address)
       IN  /\ id \in DOMAIN entitiesMap[BalanceKind]
           /\ entitiesMap[BalanceKind][id].amount \notin BootBalances

\* the (token id, amount) pairs of a non-fungible transfer event
PairAmount(event, i) ==
    IF event.topic = "Transfer" THEN 1 ELSE event.values[i]

NfTokenAmountBefore(id) ==
    IF id \in DOMAIN entitiesMap["nfToken"] THEN entitiesMap["nfToken"][id].amount
    ELSE IF id \in DOMAIN store["nfToken"] THEN store["nfToken"][id].amount
    ELSE 0

RECURSIVE supplyAfter(_, _, _, _)
supplyAfter(amount, event, tokenId, i) ==
    IF i > Len(event.ids) THEN amount
    ELSE supplyAfter(
            IF event.ids[i] = tokenId
            THEN getTokenTotalSupply(amount, PairAmount(event, i),
                                     getTransferType(event.from, event.to))
            ELSE amount,
            event, tokenId, i + 1)

NftStep ==
    /\ pc = "PROCESSING"
    /\ idx <= Len(blocks)
    /\ idx' = idx + 1
    /\ \/ blocks[idx].topic \in {"TransferSingle", "TransferBatch"}
          /\ last'.threw = {}
       \/ blocks[idx].topic = "Transfer"
          /\ "erc721" \in last'.ran
          /\ "erc721" \notin last'.threw

\* C3: after every non-fungible transfer event the amount of the token is
\* the total-supply function applied to the amount the previous event left
C3_RunningAmount ==
    [][NftStep =>
        LET event == blocks[idx] IN
        \A t \in Range(event.ids) :
            LET id == getTokenEntityId(event.address, DecStr(t)) IN
            entitiesMap'["nfToken"][id].amount
                = supplyAfter(NfTokenAmountBefore(id), event, t, 1)]_vars

\* C4: an error raised by a resolver for one event (other than a store
\* failure) is caught and the loop goes on to the flush
C4_ResolverErrorsCaught ==
    (last.threw # {} /\ last.cause # "store" /\ saves = <<>>)
        => pc = "PROCESSING"

\* C5: for a Transfer log the ERC721 resolver runs if and only if the ERC20
\* decode throws
C5_Erc721OnlyOnDecodeFailure ==
    last.log.topic = "Transfer" =>
        (("erc721" \in last.ran) <=> ~decodesAsErc20(last.log))

\* C6: a Transfer log that fails the ERC20 decode and is a valid ERC721
\* Transfer leaves exactly one NftTransfer <eventId>-<tokenId> of amount 1
\* and no FtTransfer
C6_Erc721Fallback ==
    (/\ pc = "PROCESSING"
     /\ last.log.topic = "Transfer"
     /\ ~decodesAsErc20(last.log)
     /\ decodesAsErc721(last.log)
     /\ "erc721" \notin last.threw)
    => /\ RowsOfEvent("ftTransfer", last.log) = {}
       /\ \E t \in RowsOfEvent("nftTransfer", last.log) :
             /\ RowsOfEvent("nftTransfer", last.log) = {t}
             /\ t.id = last.log.id \o <<"-">> \o DecStr(last.log.ids[1])
             /\ t.amount = 1

C6_Witness ==
    /\ ResolvedErc721
    /\ last.ran = {"erc20", "erc721"}
    /\ last.threw = {"erc20"}
    /\ last.cause = "decode"
    /\ RowsOfEvent("nftTransfer", last.log) # {}

\* C7: a TransferBatch event with n pairs leaves exactly n NftTransfers, all
\* with isBatch, whose ids are <eventId>-<id_i>
C7_BatchFanOut ==
    (Resolved /\ last.log.topic = "TransferBatch") =>
        LET ts == RowsOfEvent("nftTransfer", last.log) IN
        /\ Cardinality(ts) = Len(last.log.ids)
        /\ \A t \in ts : t.isBatch
        /\ {t.id : t \in ts}
             = {last.log.id \o <<"-">> \o DecStr(last.log.ids[i]) :
                    i \in 1..Len(last.log.ids)}

TransfersOfLast ==
    RowsOfEvent("ftTransfer", last.log) \cup RowsOfEvent("nftTransfer", last.log)

JoinRowsOf(t) ==
    {r \in Rows("accountFtTransfer") \cup Rows("accountNftTransfer") :
        r.transfer = t.id}

\* C8: every logical transfer leaves exactly two join rows, From for the
\* sender and To for the receiver
C8_TwoJoinRows ==
    (Resolved \/ ResolvedErc721) =>
        \A t \in TransfersOfLast :
            /\ Cardinality(JoinRowsOf(t)) = 2
            /\ \E r \in JoinRowsOf(t) : r.account = t.from /\ r.direction = "From"
            /\ \E r \in JoinRowsOf(t) : r.account = t.to /\ r.direction = "To"

ResolvedErc1155Transfer ==
    Resolved /\ last.log.topic \in {"TransferSingle", "TransferBatch"}

\* C9 as stated: every ERC1155 transfer has a join row of the operator
C9_OperatorJoinRow ==
    ResolvedErc1155Transfer =>
        \A t \in RowsOfEvent("nftTransfer", last.log) :
            \E r \in JoinRowsOf(t) : r.account = last.log.operator

\* C9 (amended): every ERC1155 transfer resolves the operator Account and
\* records it on the transfer; its join rows are the From row of the sender
\* and the To row of the receiver, and none is made for the operator
C9_OperatorOnTransferOnly ==
    ResolvedErc1155Transfer =>
        /\ last.log.operator \in DOMAIN entitiesMap["account"]
        /\ RowsOfEvent("nftTransfer", last.log) # {}
        /\ \A t \in RowsOfEvent("nftTransfer", last.log) :
              /\ t.operator = last.log.operator
              /\ \A r \in JoinRowsOf(t) :
                    \/ r.account = t.from /\ r.direction = "From"
                    \/ r.account = t.to /\ r.direction = "To"

C9_Witness ==
    /\ ResolvedErc1155Transfer
    /\ last.log.operator \notin {last.log.from, last.log.to}
    /\ \E t \in RowsOfEvent("nftTransfer", last.log) : JoinRowsOf(t) # {}

AllTransfers == Rows("ftTransfer") \cup Rows("nftTransfer")

\* C10: a transfer is MINT exactly when from is the zero address and to is
\* not, BURN exactly when to is the zero address and from is not, and
\* TRANSFER otherwise, also when both are the zero address
C10_Classification ==
    \A t \in AllTransfers :
        /\ t.transferType = "MINT"
              <=> (t.from = EMPTY_ADDRESS /\ t.to # EMPTY_ADDRESS)
        /\ t.transferType = "BURN"
              <=> (t.to = EMPTY_ADDRESS /\ t.from # EMPTY_ADDRESS)
        /\ t.transferType = "TRANSFER"
              <=> ((t.from = EMPTY_ADDRESS) <=> (t.to = EMPTY_ADDRESS))

C10_Witness ==
    \E t \in AllTransfers :
        /\ t.from = EMPTY_ADDRESS
        /\ t.to = EMPTY_ADDRESS
        /\ t.transferType = "TRANSFER"

\* C11: after every non-fungible transfer event the isBurned flag of the
\* token is recomputed: for an ERC721 token it is true exactly when the
\* event is a BURN, for an ERC1155 token exactly when the amount the event
\* leaves is <= 0
C11_BurnedRecomputed ==
    [][NftStep =>
        LET event == blocks[idx] IN
        \A t \in Range(event.ids) :
            LET id == getTokenEntityId(event.address, DecStr(t))
                token == entitiesMap'["nfToken"][id]
            IN  IF event.topic = "Transfer"
                THEN token.isBurned <=> (/\ event.to = EMPTY_ADDRESS
                                         /\ event.from # EMPTY_ADDRESS)
                ELSE token.isBurned <=> (token.amount <= 0)]_vars

\* an ERC721 token saved as burned that a later event has reset
C11_Witness ==
    /\ ResolvedErc721
    /\ \E id \in DOMAIN entitiesMap["nfToken"] \cap DOMAIN store["nfToken"] :
          /\ store["nfToken"][id].isBurned
          /\ ~entitiesMap["nfToken"][id].isBurned

\* C12: within one batch every bulk find precedes every resolver's get,
\* the items are resolved one at a time in the order of ctx.blocks, and no
\* save is issued before the last item has been resolved
C12_PhasesOrdered ==
    /\ [](\A i, j \in 1..Len(calls) :
            (i < j /\ calls[j].op = "find") => calls[i].op = "find")
    /\ [](saves # <<>> => idx > Len(blocks))
    /\ [][/\ ((calls' # calls /\ calls' # <<>>
                    /\ calls'[Len(calls')].op = "find")
                => pc = "PREFETCHING")
           /\ ((last' # last /\ last' # NoLast)
                => (pc = "PROCESSING" /\ last'.log = blocks[idx]))
           /\ ((idx' # idx)
                => (idx' = 1 \/ (idx' = idx + 1 /\ last'.log = blocks[idx])))]_vars

C12_Witness ==
    /\ pc = "DONE"
    /\ Len(blocks) = 2
    /\ saves # <<>>
    /\ \E i, j \in 1..Len(calls) : calls[i].op = "find" /\ calls[j].op = "get"

\* the number of store.save calls of the batch that carry an id of a kind
SaveCount(ss, kind, id) ==
    Cardinality({i \in 1..Len(ss) : ss[i].kind = kind /\ id \in ss[i].ids})

\* C13: no save is issued during prefetch or processing, and the flush of a
\* batch that completes passes every cached entity to store.save exactly
\* once
C13_SavedOnceAtFlush ==
    /\ [](pc \in {"PREFETCHING", "PROCESSING"} => saves = <<>>)
    /\ [][(pc = "PROCESSING" /\ pc' = "DONE") =>
            \A k \in KindSet : \A id \in DOMAIN entitiesMap[k] :
                /\ SaveCount(saves', k, id) = 1
                /\ id \in DOMAIN store'[k]
                /\ store'[k][id] = entitiesMap[k][id]]_vars

C13_Witness ==
    /\ pc = "DONE"
    /\ Len(blocks) = 2
    /\ \E i \in 1..Len(saves) : Cardinality(saves[i].ids) >= 2

\* C15: when a batch completes, saveAll has been called on every manager
\* that initAllEntityManagers bound, in the same order
C15_FlushExhaustive ==
    pc = "DONE" => [i \in 1..Len(saves) |-> saves[i].kind] = Kinds

C15_Witness ==
    /\ pc = "DONE"
    /\ batchNo = 2
    /\ Len(saves) = Len(Kinds)
    /\ \E i \in 1..Len(saves) : saves[i].ids # {}

\* C16: a store.save that rejects is the last save of the batch: the kinds
\* after it are not saved and the handler has failed
C16_SaveFailureAborts ==
    \A i \in 1..Len(saves) :
        ~saves[i].ok => (i = Len(saves) /\ pc = "FAILED")

C16_Witness ==
    \E i \in 1..Len(saves) :
        /\ ~saves[i].ok
        /\ i < Len(SaveOrder)
        /\ entitiesMap[SaveOrder[i + 1]] # <<>>

\* C17: a store.get that rejects while a resolver runs leaves the batch
\* handler, for every kind of event
C17_StoreFailurePropagates ==
    (last.threw # {} /\ last.cause = "store") => pc = "FAILED"

\* a client call has just been made
ApiStep(op) == api'.n = api.n + 1 /\ api'.op = op

\* C14: after saveAll completes the cache of the kind is empty, and a get
\* for an id that was cached before the flush (and was not added again)
\* queries the durable store
C14_FlushEmptiesCache ==
    /\ []((api.op = "saveAll" /\ ~api.threw) => entitiesMap[ApiKind] = <<>>)
    /\ [][(/\ ApiStep("get")
            /\ context
            /\ api'.id \in api.flushed
            /\ api'.id \notin DOMAIN entitiesMap[ApiKind])
           => /\ api'.queried
              /\ calls' = Append(calls, [op |-> "get", kind |-> ApiKind,
                                         ids |-> {api'.id},
                                         where |-> <<api'.id>>])]_vars

C14_Witness ==
    /\ api.op = "get"
    /\ api.id \in api.flushed
    /\ api.queried
    /\ ~api.threw
    /\ api.ret # {}
    /\ entitiesMap[ApiKind] = <<>>

\* C18: an add or a mutating resolver called right after saveAll fails and
\* inserts nothing into the flushed cache
C18_MutationAfterFlushFails ==
    [][(/\ api.op = "saveAll"
        /\ ~api.threw
        /\ api'.n = api.n + 1
        /\ api'.op \in {"add", "updateFTokenBalance"})
       => (api'.threw /\ entitiesMap' = entitiesMap)]_vars

\* C19: every call made before init fails and leaves the cache and the
\* prefetch list as they were
C19_NotInitialized ==
    [][(~context /\ api'.n = api.n + 1 /\ api'.op # "init")
       => /\ api'.threw
          /\ entitiesMap' = entitiesMap
          /\ prefetchItemIdsList' = prefetchItemIdsList]_vars

\* C20: get returns the cached instance when the id is cached, else the
\* row of the store, else null, and leaves the cache and the prefetch list
\* as they were
C20_GetIsReadOnly ==
    [][ApiStep("get") =>
        /\ entitiesMap' = entitiesMap
        /\ prefetchItemIdsList' = prefetchItemIdsList
        /\ ~api'.threw =>
              api'.ret = IF api'.id \in DOMAIN entitiesMap[ApiKind]
                         THEN {entitiesMap[ApiKind][api'.id]}
                         ELSE IF api'.id \in DOMAIN store[ApiKind]
                         THEN {store[ApiKind][api'.id]}
                         ELSE {}]_vars

\* a get answered by the store, and one answered by a cached instance that
\* differs from the row of the store
C20_Witness ==
    /\ api.op = "get"
    /\ ~api.threw
    /\ \/ /\ api.queried
          /\ api.ret # {}
          /\ api.id \notin DOMAIN entitiesMap[ApiKind]
       \/ /\ ~api.queried
          /\ api.id \in DOMAIN store[ApiKind]
          /\ api.ret # {store[ApiKind][api.id]}

\* the store.find calls a step has issued
NewCalls == SubSeq(calls', Len(calls) + 1, Len(calls'))

RECURSIVE Flatten(_)
Flatten(seqs) == IF seqs = <<>> THEN <<>> ELSE Head(seqs) \o Flatten(Tail(seqs))

\* a prefetchEntities call on an initialised manager
PrefetchStep == ApiStep("prefetchEntities") /\ context

\* C21: prefetchEntities with k > 0 accumulated ids issues store.find calls
\* whose id lists, concatenated in call order, are the accumulated list;
\* each carries between 1 and 1000 ids, ceil(k / 1000) calls are made, and
\* every row the store returns is in the cache under its id
C21_ChunkedPrefetch ==
    [][(PrefetchStep /\ prefetchItemIdsList[ApiKind] # <<>>) =>
        LET list == prefetchItemIdsList[ApiKind]
            found == Range(list) \cap DOMAIN store[ApiKind]
        IN  /\ \A i \in 1..Len(NewCalls) :
                  /\ NewCalls[i].op = "find"
                  /\ NewCalls[i].kind = ApiKind
                  /\ Len(NewCalls[i].where) >= 1
                  /\ Len(NewCalls[i].where) <= 1000
            /\ Flatten([i \in 1..Len(NewCalls) |-> NewCalls[i].where]) = list
            /\ Len(NewCalls) = (Len(list) + 999) \div 1000
            /\ DOMAIN entitiesMap'[ApiKind]
                  = DOMAIN entitiesMap[ApiKind] \cup found
            /\ \A id \in found : entitiesMap'[ApiKind][id] = store[ApiKind][id]]_vars

\* 2001 ids fetched by three finds of 1000, 1000 and 1 ids, the last of
\* which returns the row of the store
C21_Witness ==
    /\ api.op = "prefetchEntities"
    /\ ~api.threw
    /\ Len(calls) = 3
    /\ Len(calls[1].where) = 1000
    /\ Len(calls[2].where) = 1000
    /\ Len(calls[3].where) = 1
    /\ calls[3].where[1] \in DOMAIN entitiesMap[ApiKind]
    /\ calls[3].where[1] \notin calls[1].ids \cup calls[2].ids
\* C22: a prefetchEntities that completes leaves the list of accumulated ids
\* empty; called on an empty list it issues no store call and changes
\* neither the cache nor the list, so a second call right after a first
\* changes nothing
C22_PrefetchIdempotent ==
    [][PrefetchStep =>
        /\ ~api'.threw
        /\ prefetchItemIdsList'[ApiKind] = <<>>
        /\ prefetchItemIdsList[ApiKind] = <<>> =>
              /\ calls' = calls
              /\ ~api'.queried
              /\ entitiesMap' = entitiesMap
              /\ prefetchItemIdsList' = prefetchItemIdsList
        /\ (api.op = "prefetchEntities" /\ ~api.threw) =>
              UNCHANGED <<entitiesMap, prefetchItemIdsList, calls, store>>]_vars

\* a prefetch that queried the store and cached a row, and a second prefetch
\* right after it
C22_Witness ==
    /\ api.op = "prefetchEntities"
    /\ api.prev = "prefetchEntities"
    /\ ~api.threw
    /\ context
    /\ calls # <<>>
    /\ calls[Len(calls)].op = "find"
    /\ entitiesMap[ApiKind] # <<>>
\* C23: the prefetch phase calls prefetchEntities on every manager whose
\* list received ids during the scan: when processing begins, and when the
\* batch is over, the prefetch list of every kind is empty
C23_PrefetchListsDrained ==
    pc \in {"PROCESSING", "DONE"} =>
        \A k \in KindSet : prefetchItemIdsList[k] = <<>>
\* the fields getTokenDetails reads for a standard: name and symbol always,
\* decimals on an ERC20 contract, uri on the others when a token id is passed
Attempted(contractStandard, withTokenId) ==
    {"name", "symbol"}
        \cup (IF contractStandard = "ERC20" THEN {"decimals"} ELSE {})
        \cup (IF withTokenId /\ contractStandard # "ERC20" THEN {"uri"} ELSE {})

\* a string the normalisation has nothing to do on
Clean(str) == str # <<>> /\ NUL \notin Range(str) /\ Len(str) # Len(Sentinel)

\* C24: the reads of getTokenDetails are independent: the call returns
\* without raising, every field whose read rejects or times out is null,
\* and every other field it reads carries the value that was read
C24_ReadsIsolated ==
    api.op = "getTokenDetails" =>
        /\ ~api.threw
        /\ \E d \in api.ret :
              \A f \in {"name", "symbol", "decimals", "uri"} :
                 /\ ~api.det[f].ok => d[f] = NULL
                 /\ (/\ api.det[f].ok
                     /\ f \in Attempted(api.contractStandard, api.withTokenId)
                     /\ Clean(api.det[f].value))
                    => d[f] = api.det[f].value

\* the name read fails, and the reads after it are in the result
C24_Witness ==
    /\ api.op = "getTokenDetails"
    /\ api.contractStandard = "ERC20"
    /\ ~api.det.name.ok
    /\ api.det.symbol = Answer(<<"S">>)
    /\ api.det.decimals.ok
    /\ \E d \in api.ret :
          d.name = NULL /\ d.symbol = <<"S">> /\ d.decimals = <<"18">>
\* a getOrCreate of a token manager that has read the details of the token
EnrichedToken ==
    /\ api.op \in {"fTokenGetOrCreate", "nfTokenGetOrCreate"}
    /\ ~api.threw
    /\ api.enriched # <<>>

HexChars == Digits \cup {"a", "b", "c", "d", "e", "f", "A", "B", "C", "D", "E", "F"}

\* 10 digits, a dot, 4 hex or digit characters
SentinelPattern(str) ==
    /\ Len(str) = 15
    /\ \A i \in 1..10 : str[i] \in Digits
    /\ str[11] = "."
    /\ \A i \in 12..15 : str[i] \in HexChars

StringFields(op) ==
    IF op = "nfTokenGetOrCreate" THEN {"name", "symbol", "uri"}
    ELSE {"name", "symbol"}

\* C26: every string read for a token (name, symbol, uri) is normalised
\* before it is stored on the entity: it holds no null byte, and a result
\* of the sentinel pattern is stored as null
C26_StringsNormalised ==
    EnrichedToken =>
        \A f \in StringFields(api.op) :
            api.det[f].ok =>
                /\ NUL \notin Range(entitiesMap[IF api.op = "nfTokenGetOrCreate"
                                                 THEN "nfToken" ELSE "fToken"]
                                                [api.id][f])
                /\ SentinelPattern(api.det[f].value) =>
                      entitiesMap[IF api.op = "nfTokenGetOrCreate"
                                  THEN "nfToken" ELSE "fToken"][api.id][f] = NULL
\* the token a manager finds for an id: the cached instance, else the row
\* of the store
TokenBefore(kind, id) ==
    IF id \in DOMAIN entitiesMap[kind] THEN {entitiesMap[kind][id]}
    ELSE IF id \in DOMAIN store[kind] THEN {store[kind][id]}
    ELSE {}

Incomplete(token) == Falsy(token.name) \/ Falsy(token.symbol)

\* C27: when getOrCreate finds a fungible token with name or symbol missing,
\* the fresh read patches name and symbol on it and its decimals stay as
\* they were
C27_PatchKeepsDecimals ==
    [][(/\ ApiStep("fTokenGetOrCreate")
        /\ \E t \in TokenBefore("fToken", FtContract) : Incomplete(t))
       => LET old == TheOne(TokenBefore("fToken", FtContract))
              new == entitiesMap'["fToken"][FtContract]
          IN  /\ new.decimals = old.decimals
              /\ \A f \in {"name", "symbol"} :
                    /\ ~api'.det[f].ok => new[f] = NULL
                    /\ (api'.det[f].ok /\ Clean(api'.det[f].value))
                          => new[f] = api'.det[f].value]_vars
\* the token of either kind that the managers find for an id
AnyTokenBefore(id) == TokenBefore("fToken", id) \cup TokenBefore("nfToken", id)

\* C28: the details of a token are read from the contract only when the
\* token is in neither cache nor store, or is found without name or symbol:
\* no event reads the details of a token that is found with both
C28_LazyEnrichment ==
    [][(pc = "PROCESSING" /\ idx <= Len(blocks) /\ last' # last) =>
        \A i \in 1..Len(last'.enriched) :
            \A t \in AnyTokenBefore(last'.enriched[i]) : Incomplete(t)]_vars

\* a transfer of a fungible token that a previous batch saved with name and
\* symbol, resolved without a read of its details
C28_Witness ==
    /\ Resolved
    /\ decodesAsErc20(last.log)
    /\ last.enriched = <<>>
    /\ batchNo = 2
    /\ FtContract \in DOMAIN store["fToken"]
    /\ ~Incomplete(store["fToken"][FtContract])
\* the step that resolves a URI event without an error
UriStep ==
    /\ pc = "PROCESSING"
    /\ idx <= Len(blocks)
    /\ blocks[idx].topic = "URI"
    /\ idx' = idx + 1

UriTokenId(event) == getTokenEntityId(event.address, DecStr(event.ids[1]))

\* the item before this one was a URI event on the same token
AfterUriEvent ==
    /\ idx > 1
    /\ blocks[idx - 1].topic = "URI"
    /\ UriTokenId(blocks[idx - 1]) = UriTokenId(blocks[idx])

\* C29 as stated: a URI event on an existing token creates the
\* UriUpdateAction of the event id whose oldValue is the uri of the token
\* before the event and whose newValue is the value of the event, and sets
\* the uri of the token; the second of two URI events on a token has the
\* value of the first as its oldValue
C29_UriAudit ==
    [][UriStep =>
        LET event == blocks[idx]
            before == TheOne(TokenBefore("nfToken", UriTokenId(event)))
            action == entitiesMap'["uriUpdateAction"][event.id]
        IN  /\ action.id = event.id
            /\ action.token = before.id
            /\ action.newValue = event.uri
            /\ action.oldValue = before.uri
            /\ entitiesMap'["nfToken"][before.id].uri = event.uri
            /\ AfterUriEvent => action.oldValue = blocks[idx - 1].uri]_vars

\* C29 (amended): the oldValue is the uri of the token before the event, or
\* null when that uri is null or the empty string
C29_UriAuditOrNull ==
    [][UriStep =>
        LET event == blocks[idx]
            before == TheOne(TokenBefore("nfToken", UriTokenId(event)))
            action == entitiesMap'["uriUpdateAction"][event.id]
        IN  /\ action.id = event.id
            /\ action.token = before.id
            /\ action.newValue = event.uri
            /\ action.oldValue = IF before.uri = <<>> THEN NULL ELSE before.uri
            /\ entitiesMap'["nfToken"][before.id].uri = event.uri
            /\ AfterUriEvent =>
                  action.oldValue = IF blocks[idx - 1].uri = <<>> THEN NULL
                                    ELSE blocks[idx - 1].uri]_vars

\* two URI events on one token in one batch: the second action has the
\* value of the first as its oldValue
C29_Witness ==
    /\ pc = "PROCESSING"
    /\ idx = 3
    /\ blocks[1].topic = "URI"
    /\ blocks[2].topic = "URI"
    /\ blocks[1].uri # <<>>
    /\ blocks[2].id \in DOMAIN entitiesMap["uriUpdateAction"]
    /\ entitiesMap["uriUpdateAction"][blocks[2].id].oldValue = blocks[1].uri
    /\ entitiesMap["nfToken"][UriTokenId(blocks[2])].uri = blocks[2].uri
\* the loop handles a URI event whose token is in neither cache nor store
UriMissingStep ==
    /\ pc = "PROCESSING"
    /\ idx <= Len(blocks)
    /\ blocks[idx].topic = "URI"
    /\ TokenBefore("nfToken", UriTokenId(blocks[idx])) = {}
    /\ last' # last

\* C30: a URI event whose token is in neither cache nor store raises an
\* error that leaves the handler; no UriUpdateAction and no NfToken is
\* created and every cache is as it was
C30_UriMissingRaises ==
    [][UriMissingStep =>
        /\ last'.threw = {"erc1155Uri"}
        /\ pc' = "FAILED"
        /\ idx' = idx
        /\ blocks[idx].id \notin DOMAIN entitiesMap'["uriUpdateAction"]
        /\ UriTokenId(blocks[idx]) \notin DOMAIN entitiesMap'["nfToken"]
        /\ entitiesMap' = entitiesMap]_vars

\* the error of a URI event for a token nobody created, raised after an
\* earlier item of the batch has filled the caches
C30_Witness ==
    /\ pc = "FAILED"
    /\ last.log.topic = "URI"
    /\ last.cause = "missing"
    /\ idx = 2
    /\ entitiesMap["nfToken"] # <<>>
    /\ entitiesMap["uriUpdateAction"] = <<>>
\* the reads of token details that the timer ended during the last item
TimedOutDetails ==
    {api.timedOut[i] : i \in DOMAIN api.timedOut} \ 
        {q \in {api.timedOut[i] : i \in DOMAIN api.timedOut} :
            q.kind = "accountFTokenBalance"}

\* the rows of a kind as the handler sees them: the cache over the store
Seen(kind) == entitiesMap[kind] @@ store[kind]

\* the batch has reached the flush, or an error of a resolver has ended it
FlushedOrRaised == pc = "DONE" \/ (pc = "FAILED" /\ last.threw # {})

DerivedJoinIds == api.op = "ids" /\ api.keys[1].fn # "token"

\* equal derived ids come from equal natural keys
IdsTellKeysApart ==
    \A ids \in api.ret : ids[1] = ids[2] => api.keys[1] = api.keys[2]

\* C31 as stated: the separator appears in neither joined component, and
\* distinct (account, transfer) and (account, token) pairs get distinct ids
C31_SeparatorInNoComponent ==
    DerivedJoinIds =>
        /\ \A i \in 1..2 : /\ "-" \notin Range(api.keys[i].a)
                            /\ "-" \notin Range(api.keys[i].b)
        /\ IdsTellKeysApart

\* C31, amended: the separator does not appear in the account id, the first
\* joined component, and distinct (account, transfer) and (account, token)
\* pairs get distinct ids
C31_SeparatorNotInAccount ==
    DerivedJoinIds =>
        /\ \A i \in 1..2 : "-" \notin Range(api.keys[i].a)
        /\ IdsTellKeysApart

\* two accounts that differ in the middle of the address only, joined with
\* the same NftTransfer id, which holds the separator
C31_Witness ==
    /\ DerivedJoinIds
    /\ api.keys[1].fn = "accountTransfer"
    /\ api.keys[2].a = Twin(api.keys[1].a)
    /\ api.keys[1].a # api.keys[2].a
    /\ api.keys[1].b = api.keys[2].b
    /\ Len(api.keys[1].b) = 5
    /\ \A ids \in api.ret : ids[1] # ids[2]
\* C37: the derived NFT id is injective over its natural key: two different
\* (contract address, native token id) pairs never get the same NFT id
C37_NftIdInjective ==
    (api.op = "ids" /\ api.keys[1].fn = "token") => IdsTellKeysApart
\* the live balance reads made by the step
NewBoots == {last'.booted[i] : i \in Len(last.booted) + 1..Len(last'.booted)}

\* C32: an ERC20 Transfer that touches an (account, token) pair with no
\* balance row in cache or store creates the row with the amount of a live
\* balance read (a self transfer then adds its amount on the receiving side),
\* a pair that has a row is not read, and no pair is read twice in a batch
C32_BootstrapOncePerBatch ==
    /\ [][Erc20Step =>
            \A a \in {blocks[idx].from, blocks[idx].to} :
                \A id \in {getAccountFTokenBalanceEntityId(
                               a, blocks[idx].address)} :
                    IF BalanceBefore(id) = {}
                    THEN \E q \in NewBoots :
                            /\ q.id = id
                            /\ entitiesMap'[BalanceKind][id].amount =
                                   q.amount
                                   + (IF blocks[idx].from = blocks[idx].to
                                      THEN blocks[idx].values[1] ELSE 0)
                    ELSE \A q \in NewBoots : q.id # id]_vars
    /\ [](\A i, j \in DOMAIN last.booted :
              last.booted[i].id = last.booted[j].id => i = j)

\* the second ERC20 Transfer of a batch between two accounts whose rows the
\* first one created from live reads, one of which answered 10
C32_Witness ==
    /\ Resolved
    /\ idx = 3
    /\ decodesAsErc20(last.log)
    /\ decodesAsErc20(blocks[1])
    /\ last.log.from # last.log.to
    /\ {blocks[1].from, blocks[1].to} = {last.log.from, last.log.to}
    /\ Len(last.booted) = 2
    /\ \E i \in DOMAIN last.booted : last.booted[i].amount = 10
\* C33: after every non-fungible transfer event from `from` to `to` the
\* currentOwner of each token of the event is the Account of `to`
C33_OwnerIsReceiver ==
    [][NftStep =>
        \A t \in Range(blocks[idx].ids) :
            entitiesMap'["nfToken"][getTokenEntityId(blocks[idx].address,
                                                     DecStr(t))].currentOwner
                = blocks[idx].to]_vars
\* the loop skips a Transfer log: both resolvers raised, the error is
\* swallowed and the loop goes on
SkippedTransferStep ==
    /\ pc = "PROCESSING"
    /\ idx <= Len(blocks)
    /\ blocks[idx].topic = "Transfer"
    /\ idx' = idx + 1
    /\ "erc721" \in last'.threw

\* C34: a Transfer-topic event that is skipped because the error of its
\* resolver was swallowed leaves every cache as it was before the event
C34_SkippedEventLeavesNoEffect ==
    [][SkippedTransferStep => entitiesMap' = entitiesMap]_vars
\* C35: at the start of every batch, before the bulk finds of the prefetch,
\* every entity-kind cache is empty, also in the batch that follows one
\* aborted by a resolver error or by a failed flush
C35_CachesEmptyAtBatchStart ==
    pc = "PREFETCHING" => entitiesMap = EmptyMap

\* C36: a committed batch processed a second time leaves the durable store
\* as the first processing left it: the same ids in every kind, and the
\* amounts of the fungible balances and of the NFTs unchanged
C36_ReplayLeavesStore ==
    \A first \in api.committed :
        (pc = "DONE" /\ blocks = first.blocks /\ faults = 0) =>
            /\ \A k \in KindSet : DOMAIN store[k] = DOMAIN first.store[k]
            /\ \A k \in {BalanceKind, "nfToken"} :
                  \A id \in DOMAIN store[k] :
                      store[k][id].amount = first.store[k][id].amount

\* C38: the flush saves every kind after all the kinds its rows reference:
\* accounts and collections before tokens, tokens before transfers and uri
\* update actions, transfers before the join rows, accounts and fungible
\* tokens before balances
C38_SavedAfterReferenced ==
    \A i, j \in 1..Len(saves) :
        saves[i].kind \in References[saves[j].kind] => i < j

C38_Witness ==
    /\ pc = "DONE"
    /\ \A k \in {"account", "fToken", "ftTransfer", "accountFtTransfer",
                  "accountFTokenBalance"} :
          \E i \in 1..Len(saves) : saves[i].kind = k /\ saves[i].ids # {}

\* C39: the amount of every non-fungible token, in the cache and in the
\* store, is never negative: a burn of more than the token holds leaves 0
C39_NftAmountNeverNegative ==
    /\ \A id \in DOMAIN entitiesMap["nfToken"] :
          entitiesMap["nfToken"][id].amount >= 0
    /\ \A id \in DOMAIN store["nfToken"] : store["nfToken"][id].amount >= 0

\* the first log of a batch burnt more of a token than the token held: the
\* token was not in the store, or its row held less than the log burns
C39_Witness ==
    /\ Resolved
    /\ idx = 2
    /\ isBurn(last.log.from, last.log.to)
    /\ Len(last.log.ids) = 1
    /\ \E id \in {getTokenEntityId(last.log.address, DecStr(last.log.ids[1]))} :
          /\ \/ id \notin DOMAIN store["nfToken"]
             \/ store["nfToken"][id].amount < PairAmount(last.log, 1)
          /\ PairAmount(last.log, 1) > 0
          /\ id \in DOMAIN entitiesMap["nfToken"]
          /\ entitiesMap["nfToken"][id].amount = 0
====
